---- MODULE Spec2Model ----
(***************************************************************************)
(* Session orchestrator of the disability support system: the debounced   *)
(* button polling loop (button_handler.py), the orchestrator callbacks    *)
(* (main.py), the audio recorder with its capture thread                  *)
(* (audio_recorder.py) and the remote pipeline (llm_client.py).           *)
(*                                                                         *)
(* Threads: the button polling thread, which runs the orchestrator        *)
(* callback synchronously (variable pc), and one capture thread per       *)
(* recording (variable thr).  The environment moves the button line,      *)
(* lets time pass and decides the outcome of every device / remote call.  *)
(*                                                                         *)
(* Spec is the whole system.  SpecButton is the button monitor on its own, *)
(* with a callback that only takes time, followed press by press.          *)
(* SpecClient applies the three client methods to every response.          *)
(* SpecHandler is the ButtonHandler API with all the threads it starts.     *)
(* SpecLed is the LED controller with its animation threads.                *)
(* SpecShutdown is Spec together with the main thread's shutdown.           *)
(* SpecPlayback is the audio player; SpecQuery is process_complete_query.  *)
(***************************************************************************)
EXTENDS Integers, Sequences, FiniteSets, TLC

\* ---- bounds of the model ----
MaxRecordings == 2      \* recordings (streams / capture threads) opened in one run
MaxFrames == 2          \* frames one buffer may hold
DebounceTicks == 2      \* debounce window, in clock ticks of the model
MaxPresses == 3         \* callback invocations followed in SpecButton
MaxSuppressed == 2      \* suppressed falling edges counted in SpecButton
MaxPollThreads == 2     \* polling threads one handler starts in SpecHandler
MaxPressCalls == 2      \* callback invocations counted for one activation
MaxAnimations == 2      \* animation threads one controller starts in SpecLed
MaxLedCalls == 3        \* set_state calls followed in SpecLed
MaxPlayCalls == 3       \* play_audio calls followed in SpecPlayback

\* ---- values ----
HIGH == 1               \* GPIO.HIGH: line idle (pull-up)
LOW == 0                \* GPIO.LOW: button pressed
None == 0               \* Python None for ids (streams, threads, paths)
NoText == ""            \* empty / None text result

Recordings == 1..MaxRecordings

\* LEDController.STATE_* constants
STATE_IDLE == "idle"
STATE_RECORDING == "recording"
STATE_CAPTURING == "capturing"
STATE_PROCESSING == "processing"
STATE_SPEAKING == "speaking"
STATE_ERROR == "error"

\* The collaborator calls of stop_recording_and_process, in source order.
PipelineOrder ==
  <<"stop_recording", "capture_image", "transcribe_audio",
    "analyze_image", "generate_speech", "play_audio">>

\* Calls made after recorder.stop_recording returned.
Stages ==
  {"capture_image", "transcribe_audio", "analyze_image",
   "generate_speech", "play_audio"}

\* A logger.error record: the message and the text of the exception in it.
NoLog == [msg |-> "", exc |-> ""]

\* Variant: one message for every failure.
FailureMessageGeneric(op) == [msg |-> "Error during processing", exc |-> ""]

\* Error messages logged by stop_recording_and_process, per failed call.
FailureMessage(op) ==
  CASE op = "stop_recording"   -> [msg |-> "Failed to save audio recording", exc |-> ""]
    [] op = "capture_image"    -> [msg |-> "Failed to capture image", exc |-> ""]
    [] op = "transcribe_audio" -> [msg |-> "Failed to transcribe audio", exc |-> ""]
    [] op = "analyze_image"    -> [msg |-> "Failed to get response from VLM", exc |-> ""]
    [] op = "generate_speech"  -> [msg |-> "Failed to generate speech", exc |-> ""]
    [] op = "play_audio"       -> [msg |-> "Failed to play response", exc |-> ""]

\* Text of the TypeError Python raises when a call passes a keyword the
\* callee does not declare; it names the callee.
TypeErrorText(op) ==
  CASE op = "analyze_image" -> "analyze_image() got an unexpected keyword argument 'prompt'"
    [] OTHER                -> "got an unexpected keyword argument"

\* The record logged by the except clause of stop_recording_and_process.
ExceptionMessage(e) == [msg |-> "Error during processing", exc |-> e]

\* A request posted to the analyze endpoint: the uploaded file and the
\* form field prompt (has_prompt is FALSE when no form field is sent).
NoRequest == [sent |-> FALSE, file |-> None, has_prompt |-> FALSE, prompt |-> NoText]

\* Parameters declared by LLMClient.analyze_image (besides self).
AnalyzeImageParams == {"image_file_path"}

\* Arguments bound by the call in stop_recording_and_process:
\* analyze_image(image_file, prompt=user_question).
AnalyzeImageCallArgs == {"image_file_path", "prompt"}

\* Python binds a call iff every argument names a declared parameter.
CallBinds(params, args) == args \subseteq params

\* config.AUDIO_CONFIG: channels, sample rate, and the bytes of a sample of
\* the 16-bit format (what audio.get_sample_size returns for it).
channels == 2
sample_rate == 16000
sample_size == 2

\* A file that wave has not written.
NoWav ==
  [written |-> FALSE, payload |-> <<>>, nchannels |-> 0, sampwidth |-> 0,
   framerate |-> 0]

\* The image file of a session: not written, or written by the camera
\* tool at the path capture_image chose.
NoJpg == [written |-> FALSE, path |-> None]

JpgFile(path) == [written |-> TRUE, path |-> path]

\* The path arguments of the two remote calls that take a file.
NoneGiven == [transcribe_audio |-> None, analyze_image |-> None]

\* Texts a remote operation may answer with.
Texts == {"text"}

\* ---------------------------------------------------------------------
\* Responses of the remote service, as LLMClient reads them
\* ---------------------------------------------------------------------

\* Keys LLMClient looks up in a JSON body, and one it does not.
TranscribeKeys == {"text", "transcription"}
AnalyzeKeys == {"description", "analysis"}
SpeechKeys == {"audio", "data"}
Keys == TranscribeKeys \cup AnalyzeKeys \cup SpeechKeys \cup {"result"}

\* Audio references of a TTS response: a URL and base64 data.
Url == "http://host/a.wav"
Base64 == "UklGRg=="
AudioRefs == {Url, Base64}

\* JSON objects over the keys ks with string values from vs, the empty
\* string included: has is the set of keys present.
JsonObjects(ks, vs) ==
  { [has |-> h, val |-> [k \in Keys |-> IF k \in h THEN f[k] ELSE NoText]] :
      h \in SUBSET ks, f \in [ks -> vs \cup {NoText}] }

\* dict.get(k, default).
Get(obj, k, default) == IF k \in obj.has THEN obj.val[k] ELSE default

\* What a method of LLMClient returns: None, or a string.
ClientNone == [ok |-> FALSE, value |-> NoText]

ClientValue(v) == [ok |-> TRUE, value |-> v]

\* A response: none received (timeout, connection or HTTP error, which
\* the methods catch), or its Content-Type and JSON body.
NoResponse ==
  [received |-> FALSE, content_type |-> "",
   body |-> [has |-> {}, val |-> [k \in Keys |-> NoText]]]

Responses(types, objects) ==
  { [received |-> TRUE, content_type |-> ct, body |-> b] :
      ct \in types, b \in objects }

\* result.get(k1, result.get(k2, '')).
GetEither(obj, k1, k2) == Get(obj, k1, Get(obj, k2, NoText))

\* Variant: a body without the field yields a placeholder transcript.
TranscribeResultLenient(resp) ==
  IF ~resp.received THEN ClientNone
  ELSE IF GetEither(resp.body, "text", "transcription") # NoText
    THEN ClientValue(GetEither(resp.body, "text", "transcription"))
  ELSE IF resp.body.has \cap TranscribeKeys = {} THEN ClientValue("text")
  ELSE ClientNone

\* transcribe_audio after the POST: the value under text, else under
\* transcription, returned when it is not empty.
TranscribeResult(resp) ==
  IF ~resp.received THEN ClientNone
  ELSE IF GetEither(resp.body, "text", "transcription") # NoText
    THEN ClientValue(GetEither(resp.body, "text", "transcription"))
  ELSE ClientNone

\* analyze_image after the POST: the value under description, else under
\* analysis, returned when it is not empty.
AnalyzeResult(resp) ==
  IF ~resp.received THEN ClientNone
  ELSE IF GetEither(resp.body, "description", "analysis") # NoText
    THEN ClientValue(GetEither(resp.body, "description", "analysis"))
  ELSE ClientNone

\* The file generate_speech saves the audio to.
TtsPath == "tts.wav"

\* generate_speech after the POST: an audio Content-Type is saved as it
\* is; otherwise the JSON value under audio, else under data, is
\* downloaded when it starts with http and base64-decoded when not.
SpeechResult(resp, fetched) ==
  IF ~resp.received THEN ClientNone
  ELSE IF resp.content_type = "audio/wav" THEN ClientValue(TtsPath)
  ELSE IF GetEither(resp.body, "audio", "data") = NoText THEN ClientNone
  ELSE IF GetEither(resp.body, "audio", "data") = Url /\ ~fetched THEN ClientNone
  ELSE ClientValue(TtsPath)

\* What the with-block of stop_recording writes: the header fields set from
\* the recorder's configuration and b''.join(self.frames) as the payload.
WavFile(fr) ==
  [written |-> TRUE, payload |-> fr, nchannels |-> channels,
   sampwidth |-> sample_size, framerate |-> sample_rate]

VARIABLES
  sys,                  \* main thread: "constructed", "running", "failed"
  line,                 \* electrical level of the button pin
  last_state,           \* ButtonHandler.last_state
  elapsed,              \* time.time() - last_press_time, saturated at the window
  polling_active,       \* ButtonHandler.polling_active
  btn_initialized,      \* ButtonHandler.is_initialized
  polling_thread,       \* ButtonHandler.polling_thread (None or the thread started)
  pc,                   \* position of the polling thread
  is_recording,         \* DisabilitySupportSystem.is_recording
  is_processing,        \* DisabilitySupportSystem.is_processing
  current_audio_file,   \* DisabilitySupportSystem.current_audio_file
  audio_file,           \* locals of stop_recording_and_process
  image_file,
  user_question,
  final_answer,
  response_audio,
  signal,               \* last state given to led.set_state
  log_error,            \* last logger.error message of the current session
  vlm_request,          \* last request posted to the analyze endpoint
  given,                \* paths passed to transcribe_audio and analyze_image in this session
  jpg,                  \* the file capture_image had the camera tool write in this session
  response,             \* the response the LLMClient method in progress received
  played,               \* artifacts given to player.play_audio in this session
  synthesized,          \* artifact generate_speech returned in this session
  audio,                \* AudioRecorder.audio is not None
  rec_is_recording,     \* AudioRecorder.is_recording
  stream,               \* AudioRecorder.stream (None or stream id)
  open,                 \* streams opened and not closed
  frames,               \* AudioRecorder.frames: stream each frame was read from
  output_file,          \* AudioRecorder.output_file
  wav,                  \* the file at output_file: NoWav or what wave wrote
  recording_thread,     \* AudioRecorder.recording_thread
  thr,                  \* capture threads: "unborn", "test", "read", "done"
  rd,                   \* stream a capture thread is blocked reading (else None)
  nrec,                 \* streams opened so far
  calls,                \* history: collaborator calls of the current session
  started_from,         \* history: state in which recorder.start_recording ran
  already_in_progress,  \* history: the recorder rejected a start
  edge_in_run,          \* history: the last falling edge fell during a run
  trace,                \* history: phases of the current session
  since_callback,       \* monitor history: time since the callback was last invoked
  suppressed,           \* monitor history: edges suppressed since the last accepted press
  owed,                 \* monitor history: an activation is due an event it has not had
  presses,              \* monitor history: callback invocations
  callback_updated,     \* monitor history: set_callback has been called
  errors,               \* monitor history: kinds of exception the polling loop has caught
  last_call,            \* LLMClient on its own: the method called and what it returned
  callback_set,         \* ButtonHandler on its own: self.callback is set
  bthr,                 \* polling threads: "unborn", "poll", "callback", "exited"
  api,                  \* the caller of the handler: "idle", or "joining" inside cleanup
  press_calls,          \* history: callback invocations for the current activation
  led_initialized,      \* LEDController.is_initialized
  current_state,        \* LEDController.current_state
  animation_running,    \* LEDController.animation_running
  animation_thread,     \* LEDController.animation_thread (None or thread id)
  athr,                 \* animation threads: "unborn", the animation run, "done"
  display,              \* what the strip shows: "off" or the state last written
  led_call,             \* history: the last set_state call and how it ended
  led_calls,            \* history: number of set_state calls made
  use_fallback,         \* AudioPlayback.use_fallback
  plays,                \* history: the play_audio calls made
  query                 \* process_complete_query: its argument, position, calls, result

button == <<line, last_state, elapsed, polling_active, btn_initialized,
            polling_thread>>
orch == <<is_recording, is_processing, current_audio_file, audio_file,
          image_file, user_question, final_answer, response_audio,
          signal, log_error, vlm_request, given, jpg, response, played, synthesized>>
recorder == <<audio, rec_is_recording, stream, open, frames, output_file, wav,
              recording_thread, thr, rd, nrec>>
history == <<calls, started_from, already_in_progress, edge_in_run, trace>>
monitor == <<since_callback, suppressed, owed, presses, callback_updated,
             errors>>
client == <<last_call, query>>
handler == <<callback_set, bthr, api, press_calls>>
led == <<led_initialized, current_state, animation_running, animation_thread,
         athr, display, led_call, led_calls>>
player == <<use_fallback, plays>>
aux == <<client, handler, led, player>>
vars == <<sys, pc, button, orch, recorder, history, monitor, aux>>

\* State after DisabilitySupportSystem.__init__ (and the constructors it runs).
InitSystem ==
  /\ sys = "constructed"
  /\ line = HIGH
  /\ last_state = HIGH
  /\ elapsed = DebounceTicks      \* last_press_time = 0: the epoch is long ago
  /\ polling_active = FALSE
  /\ btn_initialized = FALSE
  /\ polling_thread = None
  /\ pc = "poll"
  /\ is_recording = FALSE
  /\ is_processing = FALSE
  /\ current_audio_file = None
  /\ audio_file = None
  /\ image_file = None
  /\ user_question = NoText
  /\ final_answer = NoText
  /\ response_audio = None
  /\ signal = "none"
  /\ log_error = NoLog
  /\ vlm_request = NoRequest
  /\ given = NoneGiven
  /\ jpg = NoJpg
  /\ played = <<>>
  /\ synthesized = None
  /\ audio = FALSE
  /\ rec_is_recording = FALSE
  /\ stream = None
  /\ open = {}
  /\ frames = <<>>
  /\ output_file = None
  /\ wav = NoWav
  /\ recording_thread = None
  /\ thr = [t \in Recordings |-> "unborn"]
  /\ rd = [t \in Recordings |-> None]
  /\ nrec = 0
  /\ calls = <<>>
  /\ started_from = "never"
  /\ already_in_progress = FALSE
  /\ edge_in_run = FALSE
  /\ trace = <<>>
  /\ since_callback = DebounceTicks
  /\ suppressed = 0
  /\ owed = FALSE
  /\ presses = 0
  /\ callback_updated = FALSE
  /\ errors = {}

\* No method of a client on its own has been called.
NoCall == [op |-> "none", returned |-> ClientNone]

\* The result dict of process_complete_query as it is first built.
EmptyResult ==
  [transcription |-> ClientNone, image_analysis |-> ClientNone,
   response_audio |-> ClientNone, success |-> FALSE]

\* process_complete_query has not been called.
NoQuery ==
  [at |-> "none", query_text |-> ClientNone, made |-> <<>>,
   result |-> EmptyResult]

\* No response has been received.
InitClient == response = NoResponse /\ last_call = NoCall /\ query = NoQuery

\* Polling threads a handler may start over its life.
PollThreads == 1..MaxPollThreads

\* The handler main.py constructs has its callback; no thread yet.
InitHandler ==
  /\ callback_set = TRUE
  /\ bthr = [t \in PollThreads |-> "unborn"]
  /\ api = "idle"
  /\ press_calls = 0

\* Animation threads a controller may start over its life.
AnimThreads == 1..MaxAnimations

\* No set_state call has been made.
NoLedCall == [state |-> "none", outcome |-> "none", failed |-> {}]

\* State after LEDController.__init__.
InitLed ==
  /\ led_initialized = FALSE
  /\ current_state = "none"
  /\ animation_running = FALSE
  /\ animation_thread = None
  /\ athr = [t \in AnimThreads |-> "unborn"]
  /\ display = "off"
  /\ led_call = NoLedCall
  /\ led_calls = 0

\* State after AudioPlayback.__init__.
InitPlayer ==
  /\ use_fallback = FALSE
  /\ plays = <<>>

Init == InitSystem /\ InitClient /\ InitHandler /\ InitLed /\ InitPlayer

\* Positions of the polling thread between the entry of
\* stop_recording_and_process and its return.
RunPcs == {"stop_recording", "join", "sleep", "finally"} \cup Stages

InRun == pc \in RunPcs

\* ---------------------------------------------------------------------
\* Environment: the physical button and the clock.
\* ---------------------------------------------------------------------

\* The user pushes the button: the line falls.
PressButton ==
  /\ sys = "running"
  /\ line = HIGH
  /\ line' = LOW
  /\ edge_in_run' = InRun
  /\ UNCHANGED <<sys, pc, last_state, elapsed, polling_active, btn_initialized,
                 polling_thread, orch, recorder, calls, started_from,
                 already_in_progress, trace, monitor, aux>>

\* The user lets go: the line rises.
ReleaseButton ==
  /\ sys = "running"
  /\ line = LOW
  /\ line' = HIGH
  /\ UNCHANGED <<sys, pc, last_state, elapsed, polling_active, btn_initialized,
                 polling_thread, orch, recorder, history, monitor, aux>>

\* Time passes; only the comparison with the debounce window is observable.
Tick ==
  /\ sys = "running"
  /\ elapsed < DebounceTicks
  /\ elapsed' = elapsed + 1
  /\ UNCHANGED <<sys, pc, line, last_state, polling_active, btn_initialized,
                 polling_thread, orch, recorder, history, monitor, aux>>

\* ---------------------------------------------------------------------
\* DisabilitySupportSystem.initialize
\* ---------------------------------------------------------------------

\* The one polling thread a handler starts.
PollingThread == 1

\* ButtonHandler._start_polling, called with polling_active false.
start_polling ==
  /\ polling_active' = TRUE
  /\ polling_thread' = PollingThread

\* ButtonHandler.initialize: on success reads the line, sets is_initialized
\* and, the callback being set by the constructor, starts the polling
\* thread; when GPIO is missing, in an incompatible mode or setup raises it
\* returns False before any of that.
button_initialize(ok) ==
  IF ok
    THEN /\ last_state' = line
         /\ btn_initialized' = TRUE
         /\ start_polling
    ELSE UNCHANGED <<last_state, btn_initialized, polling_active, polling_thread>>

\* initialize: when recorder.initialize fails it returns False and main()
\* exits with status 1; a failure of the button is logged and initialize
\* goes on, as it does for the LED controller, the camera test and the
\* playback test, whose outcomes change nothing modelled here.
initialize ==
  /\ sys = "constructed"
  /\ \E recOk \in BOOLEAN, btnOk \in BOOLEAN :
       IF recOk
         THEN /\ audio' = TRUE
              /\ button_initialize(btnOk)
              /\ signal' = STATE_IDLE
              /\ sys' = "running"
         ELSE /\ sys' = "failed"
              /\ UNCHANGED <<audio, signal, last_state, btn_initialized,
                             polling_active, polling_thread>>
  /\ UNCHANGED <<pc, line, elapsed, is_recording, is_processing,
                 current_audio_file, audio_file, image_file, user_question,
                 final_answer, response_audio, log_error, vlm_request, given, jpg, response, played,
                 synthesized, rec_is_recording, stream, open, frames, output_file,
                 wav, recording_thread, thr, rd, nrec, history, monitor, aux>>

\* ---------------------------------------------------------------------
\* ButtonHandler._polling_loop
\* ---------------------------------------------------------------------

\* Variant: no debouncing.
DebouncedAlways(dt) == TRUE

\* Software debouncing: current_time - last_press_time >= debounce window.
Debounced(dt) == dt >= DebounceTicks

\* A falling edge between the previous sample and this one.
FallingEdge(prev, cur) == prev = HIGH /\ cur = LOW

\* Variant: a loop that leaves last_state at the idle level after a callback.
StateAfterCallbackIdle == HIGH

\* last_state after the callback returned: the sample that triggered it,
\* which the edge test made GPIO.LOW.
StateAfterCallback == LOW

\* The sample taken now is a falling edge that passes the debounce test.
Accepted == FallingEdge(last_state, line) /\ Debounced(elapsed)

\* Variant: every falling edge restarts the window.
ElapsedAfterAnyEdge(edge, accepted, dt) == IF edge THEN 0 ELSE dt

\* time.time() - last_press_time after an iteration: last_press_time is
\* assigned the current time only inside the debounce test.
ElapsedAfterSample(edge, accepted, dt) == IF accepted THEN 0 ELSE dt

\* One iteration of the loop up to the callback: sample the line, detect
\* the edge, debounce; an accepted press enters the callback, which runs on
\* this thread before last_state is updated.  (GPIO.input raising is
\* logged and the iteration leaves every field as it was.)
polling_loop ==
  /\ pc = "poll"
  /\ polling_active /\ btn_initialized
  /\ elapsed' = ElapsedAfterSample(FallingEdge(last_state, line), Accepted, elapsed)
  /\ IF Accepted
       THEN /\ pc' = "callback"
            /\ UNCHANGED last_state
       ELSE /\ last_state' = line
            /\ UNCHANGED pc

Poll ==
  /\ sys = "running"
  /\ polling_loop
  /\ UNCHANGED <<sys, line, polling_active, btn_initialized, polling_thread,
                 orch, recorder, history, monitor, aux>>

\* ---------------------------------------------------------------------
\* AudioRecorder.start_recording
\* ---------------------------------------------------------------------

\* What start_recording returns: the path of the artifact, or None when a
\* recording is in progress or audio.open raises.
StartResult(ok) ==
  IF rec_is_recording THEN None
  ELSE IF ok /\ audio THEN nrec + 1
  ELSE None

recorder_start_recording(ok) ==
  /\ started_from' = IF is_recording \/ is_processing THEN "busy"
                     ELSE IF rec_is_recording THEN "capturing"
                     ELSE "idle"
  /\ IF rec_is_recording
       THEN /\ already_in_progress' = TRUE
            /\ UNCHANGED recorder
       ELSE /\ UNCHANGED already_in_progress
            /\ output_file' = nrec + 1
            /\ wav' = NoWav
            /\ IF ok /\ audio
                 THEN /\ nrec' = nrec + 1
                      /\ stream' = nrec + 1
                      /\ open' = open \cup {nrec + 1}
                      /\ frames' = <<>>
                      /\ rec_is_recording' = TRUE
                      /\ recording_thread' = nrec + 1
                      /\ thr' = [thr EXCEPT ![nrec + 1] = "test"]
                      /\ UNCHANGED <<audio, rd>>
                 ELSE /\ rec_is_recording' = FALSE
                      /\ UNCHANGED <<audio, stream, open, frames,
                                     recording_thread, thr, rd, nrec>>

\* ---------------------------------------------------------------------
\* DisabilitySupportSystem.on_button_press and start_recording
\* ---------------------------------------------------------------------

\* Variant: the result of the recorder is not looked at.
RecordingStartedAlways(result) == TRUE

\* Variant: the orchestrator's flag is not set after a successful start.
RecordingStartedNever(result) == FALSE

\* What start_recording does with the recorder's result.
RecordingStarted(result) == result # None

start_recording ==
  \E ok \in BOOLEAN :
    /\ ok => nrec < MaxRecordings
    /\ recorder_start_recording(ok)
    /\ current_audio_file' = StartResult(ok)
    /\ IF RecordingStarted(StartResult(ok))
         THEN /\ is_recording' = TRUE
              /\ signal' = STATE_RECORDING
              /\ trace' = <<"Idle", "Recording">>
              /\ log_error' = NoLog
         ELSE /\ signal' = STATE_ERROR
              /\ log_error' = [msg |-> "Failed to start recording", exc |-> ""]
              /\ trace' = <<"Idle", "Error">>
              /\ UNCHANGED is_recording
    /\ last_state' = StateAfterCallback
    /\ pc' = "poll"
    /\ calls' = <<>>
    /\ played' = <<>>
    /\ synthesized' = None
    /\ vlm_request' = NoRequest
    /\ given' = NoneGiven
    /\ jpg' = NoJpg
    /\ response' = NoResponse
    /\ UNCHANGED <<is_processing, audio_file, image_file, user_question,
                   final_answer, response_audio, edge_in_run>>

\* Variant: an entry that does not clear is_recording.
FlagsOnEntryKeepRecording == [is_recording |-> TRUE, is_processing |-> TRUE]

\* The two flag assignments at the entry of stop_recording_and_process.
FlagsOnEntry == [is_recording |-> FALSE, is_processing |-> TRUE]

\* Entry of stop_recording_and_process: the flag assignments; the locals
\* of the call and the histories of the session start empty.
enter_stop_recording_and_process ==
  /\ is_recording' = FlagsOnEntry.is_recording
  /\ is_processing' = FlagsOnEntry.is_processing
  /\ pc' = "stop_recording"
  /\ calls' = <<>>
  /\ played' = <<>>
  /\ synthesized' = None
  /\ vlm_request' = NoRequest
  /\ given' = NoneGiven
  /\ jpg' = NoJpg
  /\ response' = NoResponse
  /\ audio_file' = None
  /\ image_file' = None
  /\ user_question' = NoText
  /\ final_answer' = NoText
  /\ response_audio' = None
  /\ log_error' = NoLog
  /\ trace' = Append(trace, "Processing")
  /\ UNCHANGED <<last_state, current_audio_file, signal, recorder,
                 started_from, already_in_progress, edge_in_run>>

\* "Button press ignored - system is processing".
ignore_press ==
  /\ last_state' = StateAfterCallback
  /\ pc' = "poll"
  /\ UNCHANGED <<orch, recorder, history>>

\* Variant: a press while recording starts a recording again.
DispatchAlwaysStart(processing, recording) ==
  IF processing THEN "ignore" ELSE "start"

\* The branch on_button_press takes.
Dispatch(processing, recording) ==
  IF processing THEN "ignore"
  ELSE IF ~recording THEN "start"
  ELSE "stop"

on_button_press ==
  /\ pc = "callback"
  /\ CASE Dispatch(is_processing, is_recording) = "ignore" -> ignore_press
       [] Dispatch(is_processing, is_recording) = "start" -> start_recording
       [] Dispatch(is_processing, is_recording) = "stop" ->
            enter_stop_recording_and_process
  /\ UNCHANGED <<sys, line, elapsed, polling_active, btn_initialized,
                 polling_thread, monitor, aux>>

\* ---------------------------------------------------------------------
\* AudioRecorder._record_audio: the capture thread of recording t
\* ---------------------------------------------------------------------

\* The loop test "while self.is_recording" and the call of self.stream.read:
\* both fields are read when the thread gets there, whichever recording
\* they belong to by then.  Reading with no stream raises; the handler
\* clears is_recording.
record_audio_test(t) ==
  /\ thr[t] = "test"
  /\ IF rec_is_recording
       THEN IF stream = None
              THEN /\ rec_is_recording' = FALSE
                   /\ thr' = [thr EXCEPT ![t] = "done"]
                   /\ UNCHANGED rd
              ELSE /\ thr' = [thr EXCEPT ![t] = "read"]
                   /\ rd' = [rd EXCEPT ![t] = stream]
                   /\ UNCHANGED rec_is_recording
       ELSE /\ thr' = [thr EXCEPT ![t] = "done"]
            /\ UNCHANGED <<rd, rec_is_recording>>
  /\ UNCHANGED <<sys, pc, button, orch, audio, stream, open, frames,
                 output_file, wav, recording_thread, nrec, history, monitor, aux>>

\* Variant: a capture thread that rewrites the file from its buffer.
FileAfterReadFlushed(f, fr) == IF f.written THEN WavFile(fr) ELSE f

\* The file at output_file after the capture thread took a chunk: the
\* thread appends to self.frames in memory and does not touch the file.
FileAfterRead(f, fr) == f

\* The blocking read returns a chunk, appended to self.frames, or raises
\* (device error, stream closed under the read).
record_audio_read(t) ==
  /\ thr[t] = "read"
  /\ \E raised \in BOOLEAN :
       IF raised
         THEN /\ rec_is_recording' = FALSE
              /\ thr' = [thr EXCEPT ![t] = "done"]
              /\ UNCHANGED frames
         ELSE /\ Len(frames) < MaxFrames
              /\ frames' = Append(frames, rd[t])
              /\ thr' = [thr EXCEPT ![t] = "test"]
              /\ UNCHANGED rec_is_recording
  /\ rd' = [rd EXCEPT ![t] = None]
  /\ wav' = FileAfterRead(wav, frames')
  /\ UNCHANGED <<sys, pc, button, orch, audio, stream, open,
                 output_file, recording_thread, nrec, history, monitor, aux>>

\* ---------------------------------------------------------------------
\* DisabilitySupportSystem.stop_recording_and_process
\* ---------------------------------------------------------------------

\* The call in progress, or the last one made, in this session.
Called(op, out) == Append(calls, [op |-> op, out |-> out])

Returned(out) == [calls EXCEPT ![Len(calls)].out = out]

\* The call that follows op in the pipeline.
NextCall(op) ==
  CASE op = "stop_recording"   -> "capture_image"
    [] op = "capture_image"    -> "transcribe_audio"
    [] op = "transcribe_audio" -> "analyze_image"
    [] op = "analyze_image"    -> "generate_speech"
    [] op = "generate_speech"  -> "play_audio"
    [] op = "play_audio"       -> "finally"

\* Variant: a failure branch without its return statement.
AfterFailureFallThrough(op) == NextCall(op)

\* Variant: a failed call is made again.
AfterFailureRetry(op) == IF op \in Stages THEN op ELSE "finally"

\* Where control goes after the failure of a call: the return statement
\* of the branch leads to the finally clause.
AfterFailure(op) == "finally"

\* Variant: a failure branch that leaves the indicator as it was.
AbortSilently(op) ==
  /\ signal' = signal
  /\ log_error' = FailureMessage(op)
  /\ is_processing' = FALSE
  /\ trace' = Append(trace, "Error")
  /\ pc' = AfterFailure(op)

\* The early-return branches: error logged and signalled, is_processing
\* cleared, return (the finally clause still runs).
Abort(op) ==
  /\ signal' = STATE_ERROR
  /\ log_error' = FailureMessage(op)
  /\ is_processing' = FALSE
  /\ trace' = Append(trace, "Error")
  /\ pc' = AfterFailure(op)

\* AudioRecorder.stop_recording up to the join: nothing to stop returns
\* None at once, otherwise the capture thread is signalled.
stop_recording ==
  /\ pc = "stop_recording"
  /\ IF ~rec_is_recording
       THEN /\ calls' = Called("stop_recording", "fail")
            /\ Abort("stop_recording")
            /\ UNCHANGED rec_is_recording
       ELSE /\ calls' = Called("stop_recording", "running")
            /\ rec_is_recording' = FALSE
            /\ pc' = "join"
            /\ UNCHANGED <<signal, log_error, is_processing, trace>>
  /\ UNCHANGED <<sys, button, is_recording, current_audio_file, audio_file,
                 image_file, user_question, final_answer, response_audio,
                 vlm_request, given, jpg, response, played, synthesized, audio, stream, open, frames,
                 output_file, wav, recording_thread, thr, rd, nrec,
                 started_from, already_in_progress, edge_in_run, monitor, aux>>

\* recording_thread.join(timeout=2.0) returns when the thread has ended or
\* when the timeout expired with the thread still alive.
JoinReturns(timedOut) ==
  IF timedOut THEN thr[recording_thread] # "done"
  ELSE thr[recording_thread] = "done"

\* Variant: the buffer is not looked at before the file is written.
StopResultAnyBuffer(closeOk) ==
  IF stream # None /\ ~closeOk THEN None ELSE output_file

\* What stop_recording returns after the join: None when closing the
\* stream raised or no frame was recorded, else the artifact path.
StopResult(closeOk) ==
  IF stream # None /\ ~closeOk THEN None
  ELSE IF frames # <<>> /\ output_file # None THEN output_file
  ELSE None

\* Variant: an error of stop_stream or close leaves stop_recording.
StopOutcomeEscalates(closeOk) ==
  IF stream # None /\ ~closeOk THEN "raise"
  ELSE IF StopResult(closeOk) = None THEN "fail" ELSE "ok"

\* How the call of stop_recording ends for the orchestrator: the try
\* block of stop_recording catches every exception and returns None, so
\* the call returns a path or None and never raises.
StopOutcome(closeOk) == IF StopResult(closeOk) = None THEN "fail" ELSE "ok"

\* The rest of stop_recording (join, close, save) and what the
\* orchestrator does with its result.  The file system is taken to work:
\* wave.open and writeframes do not raise.
join ==
  /\ pc = "join"
  /\ \E timedOut \in BOOLEAN, closeOk \in BOOLEAN :
       /\ JoinReturns(timedOut)
       /\ elapsed' = IF timedOut THEN DebounceTicks ELSE elapsed
       /\ IF stream # None /\ closeOk
            THEN /\ open' = open \ {stream}
                 /\ stream' = None
            ELSE UNCHANGED <<open, stream>>
       /\ wav' = IF StopResult(closeOk) # None THEN WavFile(frames) ELSE wav
       /\ calls' = Returned(StopOutcome(closeOk))
       /\ CASE StopOutcome(closeOk) = "fail" ->
                 /\ Abort("stop_recording")
                 /\ UNCHANGED audio_file
            [] StopOutcome(closeOk) = "ok" ->
                 /\ audio_file' = StopResult(closeOk)
                 /\ signal' = STATE_CAPTURING
                 /\ pc' = "capture_image"
                 /\ UNCHANGED <<log_error, is_processing, trace>>
            [] StopOutcome(closeOk) = "raise" ->
                 /\ signal' = STATE_ERROR
                 /\ log_error' = ExceptionMessage("stop_recording")
                 /\ trace' = Append(trace, "Error")
                 /\ pc' = "sleep"
                 /\ UNCHANGED <<audio_file, is_processing>>
  /\ UNCHANGED <<sys, line, last_state, polling_active, btn_initialized,
                 polling_thread, is_recording, current_audio_file, image_file,
                 user_question, final_answer, response_audio, vlm_request, given, jpg, response, played,
                 synthesized, audio, rec_is_recording, frames, output_file,
                 recording_thread, thr, rd, nrec, started_from,
                 already_in_progress, edge_in_run, monitor, aux>>

\* camera.capture_image: a path or None.
capture_image ==
  /\ \E ok \in BOOLEAN :
       IF ok
         THEN /\ calls' = Called("capture_image", "ok")
              /\ image_file' = audio_file
              /\ jpg' = JpgFile(audio_file)
              /\ signal' = STATE_PROCESSING
              /\ pc' = "transcribe_audio"
              /\ UNCHANGED <<log_error, is_processing, trace>>
         ELSE /\ calls' = Called("capture_image", "fail")
              /\ Abort("capture_image")
              /\ UNCHANGED <<image_file, jpg>>
  /\ UNCHANGED <<user_question, final_answer, response_audio, vlm_request, given, response,
                 played, synthesized, elapsed>>

\* llm_client.transcribe_audio(audio_file): the transcript or None.
transcribe_audio ==
  /\ given' = [given EXCEPT !.transcribe_audio = audio_file]
  /\ \E resp \in {NoResponse} \cup Responses({"application/json"},
                                              JsonObjects(TranscribeKeys, Texts)) :
       /\ response' = resp
       /\ user_question' = TranscribeResult(resp).value
       /\ IF TranscribeResult(resp).ok
            THEN /\ calls' = Called("transcribe_audio", "ok")
                 /\ pc' = "analyze_image"
                 /\ UNCHANGED <<signal, log_error, is_processing, trace>>
            ELSE /\ calls' = Called("transcribe_audio", "fail")
                 /\ Abort("transcribe_audio")
  /\ UNCHANGED <<image_file, final_answer, response_audio, vlm_request, jpg,
                 played, synthesized, elapsed>>

\* llm_client.analyze_image(image_file, prompt=user_question).  A call that
\* does not bind raises TypeError into the except clause of
\* stop_recording_and_process: error logged and signalled, then sleep.
\* The body of analyze_image posts the image file alone.
analyze_image ==
  /\ given' = [given EXCEPT !.analyze_image = image_file]
  /\ IF CallBinds(AnalyzeImageParams, AnalyzeImageCallArgs)
       THEN /\ vlm_request' = [sent |-> TRUE, file |-> image_file,
                               has_prompt |-> FALSE, prompt |-> NoText]
            /\ \E resp \in {NoResponse} \cup
                           Responses({"application/json"},
                                     JsonObjects(AnalyzeKeys \cup {"result"}, Texts)) :
                 /\ response' = resp
                 /\ final_answer' = AnalyzeResult(resp).value
                 /\ IF AnalyzeResult(resp).ok
                      THEN /\ calls' = Called("analyze_image", "ok")
                           /\ pc' = "generate_speech"
                           /\ UNCHANGED <<signal, log_error, is_processing, trace>>
                      ELSE /\ calls' = Called("analyze_image", "fail")
                           /\ Abort("analyze_image")
       ELSE /\ calls' = Called("analyze_image", "raise")
            /\ signal' = STATE_ERROR
            /\ log_error' = ExceptionMessage(TypeErrorText("analyze_image"))
            /\ trace' = Append(trace, "Error")
            /\ pc' = "sleep"
            /\ response' = NoResponse
            /\ UNCHANGED <<vlm_request, final_answer, is_processing>>
  /\ UNCHANGED <<image_file, user_question, response_audio, played,
                 synthesized, jpg, elapsed>>

\* llm_client.generate_speech(final_answer): a path or None; on success the
\* speaking state is signalled.
generate_speech ==
  /\ \E resp \in {NoResponse} \cup Responses({"audio/wav", "application/json"},
                                              JsonObjects(SpeechKeys, AudioRefs)),
        fetched \in BOOLEAN :
       /\ response' = resp
       /\ IF SpeechResult(resp, fetched).ok
         THEN /\ calls' = Called("generate_speech", "ok")
              /\ response_audio' = audio_file
              /\ synthesized' = audio_file
              /\ signal' = STATE_SPEAKING
              /\ trace' = Append(trace, "Speaking")
              /\ pc' = "play_audio"
              /\ UNCHANGED <<log_error, is_processing>>
         ELSE /\ calls' = Called("generate_speech", "fail")
              /\ Abort("generate_speech")
              /\ UNCHANGED <<response_audio, synthesized>>
  /\ UNCHANGED <<image_file, user_question, final_answer, vlm_request, given, jpg,
                 played, elapsed>>

\* player.play_audio(response_audio, blocking=True): a failure is logged
\* and signalled, and the function falls through to the finally clause.
play_audio ==
  /\ played' = Append(played, response_audio)
  /\ \E ok \in BOOLEAN :
       IF ok
         THEN /\ calls' = Called("play_audio", "ok")
              /\ UNCHANGED <<signal, log_error, trace>>
         ELSE /\ calls' = Called("play_audio", "fail")
              /\ signal' = STATE_ERROR
              /\ log_error' = FailureMessage("play_audio")
              /\ trace' = Append(trace, "Error")
  /\ pc' = "finally"
  /\ UNCHANGED <<image_file, user_question, final_answer, response_audio,
                 vlm_request, given, jpg, response, synthesized, is_processing, elapsed>>

\* The call the polling thread is at, steps 2 to 6 of the pipeline.
pipeline_stage ==
  /\ pc \in Stages
  /\ CASE pc = "capture_image"    -> capture_image
       [] pc = "transcribe_audio" -> transcribe_audio
       [] pc = "analyze_image"    -> analyze_image
       [] pc = "generate_speech"  -> generate_speech
       [] pc = "play_audio"       -> play_audio
  /\ UNCHANGED <<sys, line, last_state, polling_active, btn_initialized,
                 polling_thread, is_recording, current_audio_file, audio_file,
                 recorder, started_from, already_in_progress, edge_in_run, monitor, aux>>

\* except clause, after the error was signalled: time.sleep(2).
sleep ==
  /\ pc = "sleep"
  /\ elapsed' = DebounceTicks
  /\ pc' = "finally"
  /\ UNCHANGED <<sys, line, last_state, polling_active, btn_initialized,
                 polling_thread, orch, recorder, history, monitor, aux>>

\* Variant: a finally clause that leaves is_processing as it is.
ProcessingAfterFinallyKept == is_processing

\* is_processing after the finally clause.
ProcessingAfterFinally == FALSE

\* finally clause, then the return to the polling loop; the locals of the
\* call are gone.
finally ==
  /\ pc = "finally"
  /\ is_processing' = ProcessingAfterFinally
  /\ signal' = STATE_IDLE
  /\ trace' = Append(trace, "Idle")
  /\ last_state' = StateAfterCallback
  /\ pc' = "poll"
  /\ audio_file' = None
  /\ image_file' = None
  /\ user_question' = NoText
  /\ final_answer' = NoText
  /\ response_audio' = None
  /\ response' = NoResponse
  /\ UNCHANGED <<sys, line, elapsed, polling_active, btn_initialized,
                 polling_thread, is_recording, current_audio_file, log_error,
                 vlm_request, given, jpg, played, synthesized, recorder, calls,
                 started_from, already_in_progress, edge_in_run, monitor, aux>>

\* ---------------------------------------------------------------------
\* The system
\* ---------------------------------------------------------------------

Next ==
  \/ initialize
  \/ PressButton
  \/ ReleaseButton
  \/ Tick
  \/ Poll
  \/ on_button_press
  \/ \E t \in Recordings : record_audio_test(t)
  \/ \E t \in Recordings : record_audio_read(t)
  \/ stop_recording
  \/ join
  \/ pipeline_stage
  \/ sleep
  \/ finally

Spec == Init /\ [][Next]_vars

TypeOK ==
  /\ sys \in {"constructed", "running", "failed"}
  /\ line \in {LOW, HIGH} /\ last_state \in {LOW, HIGH}
  /\ elapsed \in 0..DebounceTicks
  /\ pc \in {"poll", "callback"} \cup RunPcs
  /\ is_recording \in BOOLEAN /\ is_processing \in BOOLEAN
  /\ rec_is_recording \in BOOLEAN
  /\ stream \in 0..MaxRecordings
  /\ open \subseteq Recordings
  /\ Len(frames) <= MaxFrames
  /\ nrec \in 0..MaxRecordings
  /\ Len(calls) <= Len(PipelineOrder)
  /\ polling_thread \in {None, PollingThread}
  /\ wav.written \in BOOLEAN /\ Len(wav.payload) <= MaxFrames
  /\ jpg.written \in BOOLEAN
  /\ given.transcribe_audio \in 0..MaxRecordings
  /\ given.analyze_image \in 0..MaxRecordings
  /\ since_callback \in 0..DebounceTicks
  /\ suppressed \in 0..MaxSuppressed
  /\ presses \in 0..MaxPresses
  /\ owed \in BOOLEAN /\ callback_updated \in BOOLEAN
  /\ errors \subseteq {"read", "callback"}

\* ---------------------------------------------------------------------
\* Properties
\* ---------------------------------------------------------------------

Last(seq) == seq[Len(seq)]

Ops(seq) == {seq[i].op : i \in 1..Len(seq)}

Alive(t) == thr[t] \in {"test", "read"}

NewThreads == {t \in Recordings : thr[t] = "unborn" /\ thr'[t] # "unborn"}

\* No capture is started by the step: no stream opened, no thread born,
\* the recorder's start not run.
NoCaptureStarted ==
  /\ nrec' = nrec
  /\ open' \subseteq open
  /\ NewThreads = {}
  /\ UNCHANGED <<output_file, recording_thread, current_audio_file>>

\* C1: a press that arrives while a pipeline run is in flight is dropped:
\* the callback is only ever entered for a falling edge that fell outside a
\* run, and no step of a run starts the recorder or enters a second run.
C1_PressDuringRunDropped ==
  [][ /\ (pc # "callback" /\ pc' = "callback") => ~edge_in_run
      /\ InRun => (NoCaptureStarted /\ pc' # "callback"
                   /\ (pc' = "stop_recording" => pc = "stop_recording")) ]_vars

\* A press fell during a run, is still held after the run returned, and
\* the loop has sampled it without calling back.
C1_Witness ==
  /\ edge_in_run /\ pc = "poll" /\ line = LOW /\ last_state = LOW
  /\ ~is_processing /\ elapsed = DebounceTicks /\ Len(calls) > 0

\* C2: is_recording and is_processing are never both true, and the
\* recorder's start is only run from Idle with the recorder not capturing,
\* so that its "already in progress" rejection is never reached.
C2_OneSession ==
  /\ ~(is_recording /\ is_processing)
  /\ started_from \in {"never", "idle"}
  /\ ~already_in_progress
  /\ InRun => ~is_recording

\* A second recording was started after a complete session.
C2_Witness ==
  /\ nrec = 2 /\ is_recording /\ rec_is_recording /\ started_from = "idle"
  /\ open = {2} /\ \A t \in Recordings : t # 2 => thr[t] = "done"

\* The press handled by the step found the orchestrator Idle.
PressWhileIdle == pc = "callback" /\ ~is_recording /\ ~is_processing /\ pc' # pc

\* C3 as stated: a press while Idle always transitions to Recording and
\* starts exactly one capture, whatever the recorder's start returns.
C3_Original ==
  [][ PressWhileIdle =>
        /\ is_recording'
        /\ Cardinality(open') = Cardinality(open) + 1
        /\ Cardinality(NewThreads) = 1 ]_vars

\* C3 amended: a press while Idle transitions to Recording and starts
\* exactly one capture (one stream opened, one thread started) when the
\* recorder's start returns a path; when it returns None the orchestrator
\* stays Idle, signals error and starts no capture.
C3_StartFromIdle ==
  [][ PressWhileIdle =>
        IF current_audio_file' # None
          THEN /\ is_recording' /\ rec_is_recording'
               /\ signal' = STATE_RECORDING
               /\ Cardinality(open') = Cardinality(open) + 1
               /\ stream' \in open' \ open
               /\ NewThreads = {recording_thread'}
          ELSE /\ ~is_recording'
               /\ signal' = STATE_ERROR
               /\ open' = open
               /\ NewThreads = {} ]_vars

\* A recording just started from Idle: one stream, one thread, no frame.
C3_Witness ==
  /\ is_recording /\ rec_is_recording /\ pc = "poll"
  /\ stream \in open /\ thr[stream] = "test" /\ frames = <<>>
  /\ signal = STATE_RECORDING

Failed(c) == c.out \in {"fail", "raise"}

\* C5: no call of the session follows a failed one; in particular after an
\* empty transcript analyze_image, generate_speech and play_audio are not
\* called.
C5_AbortShortCircuits ==
  /\ \A i \in 1..Len(calls) : Failed(calls[i]) => i = Len(calls)
  /\ \A i \in 1..Len(calls) :
       (calls[i].op = "transcribe_audio" /\ calls[i].out = "fail") =>
          /\ Ops(calls) \cap {"analyze_image", "generate_speech", "play_audio"} = {}
          /\ played = <<>>

\* A session ended on an empty transcript.
C5_Witness ==
  /\ pc = "poll" /\ Len(calls) = 3
  /\ calls[3] = [op |-> "transcribe_audio", out |-> "fail"]
  /\ user_question = NoText

\* C6: the calls of a session are made in the order of the pipeline, each
\* at most once, and one at a time: a call is only in progress as the last
\* one made.
C6_SequentialPipeline ==
  /\ Len(calls) <= Len(PipelineOrder)
  /\ \A i \in 1..Len(calls) :
       /\ i <= Len(PipelineOrder) => calls[i].op = PipelineOrder[i]
       /\ calls[i].out = "running" => (i = Len(calls) /\ pc = "join")
  /\ pc \in Stages => (Len(calls) < Len(PipelineOrder)
                         /\ pc = PipelineOrder[Len(calls) + 1])

\* The fourth call of a session was made.
C6_Witness ==
  /\ Len(calls) = 4 /\ calls[4].op = "analyze_image" /\ calls[3].out = "ok"

\* C7 as stated: when camera.capture_image (or the speaker) is about to be
\* used, every capture thread has terminated and no microphone stream is
\* open.
C7_MicReleasedBeforeCamera ==
  pc \in {"capture_image", "play_audio"} =>
     /\ open = {}
     /\ \A t \in Recordings : ~Alive(t)

\* The session is over and every collaborator that answered succeeded: the
\* recording was saved, the image captured, no remote result was empty.
SessionSucceeded ==
  /\ pc = "poll" /\ trace # <<>> /\ Last(trace) = "Idle"
  /\ Len(calls) >= 3
  /\ \A i \in 1..Len(calls) : calls[i].out # "fail"

\* C8 as stated: when the recording, the image and the three remote
\* operations succeed the session goes Idle, Recording, Processing,
\* Speaking, Idle and play_audio is called once, with the artifact of
\* generate_speech.
C8_HappyPath ==
  SessionSucceeded =>
     /\ trace = <<"Idle", "Recording", "Processing", "Speaking", "Idle">>
     /\ synthesized # None
     /\ played = <<synthesized>>

\* C9 as stated: once analyze_image has been called in a run, the analyze
\* request was made with the session's image and the transcript as its
\* prompt.
C9_AnalyzeWithTranscript ==
  (InRun /\ "analyze_image" \in Ops(calls)) =>
     /\ vlm_request.sent
     /\ vlm_request.file = image_file
     /\ vlm_request.has_prompt
     /\ vlm_request.prompt = user_question

\* The stage an error record identifies.
StageOfLog(l) ==
  CASE l.msg = "Failed to transcribe audio"      -> "transcribe_audio"
    [] l.msg = "Failed to get response from VLM" -> "analyze_image"
    [] l.msg = "Failed to generate speech"       -> "generate_speech"
    [] l.msg = "Failed to play response"         -> "play_audio"
    [] l.msg = "Error during processing" /\ l.exc = TypeErrorText("analyze_image")
                                                 -> "analyze_image"
    [] OTHER                                     -> "unknown"

PipelineStages == {"transcribe_audio", "analyze_image", "generate_speech", "play_audio"}

\* C10: a failed stage (empty result or exception) puts the session in
\* Error, the error signalled until the finally clause and logged with a
\* message that identifies the stage, and the stage is not called again.
C10_StageFailure ==
  \A i \in 1..Len(calls) :
    (calls[i].op \in PipelineStages /\ Failed(calls[i])) =>
       /\ Last(trace) = "Error" \/ (Last(trace) = "Idle" /\ pc \notin RunPcs)
       /\ pc \in RunPcs => signal = STATE_ERROR
       /\ StageOfLog(log_error) = calls[i].op
       /\ \A j \in 1..Len(calls) : calls[j].op = calls[i].op => j = i
       /\ pc \in {"sleep", "finally", "poll", "callback"}

\* The error of an empty transcript is being signalled.
C10_Witness ==
  /\ pc = "finally" /\ signal = STATE_ERROR
  /\ Last(calls) = [op |-> "transcribe_audio", out |-> "fail"]
  /\ log_error = FailureMessage("transcribe_audio")

\* The polling thread is in its loop, no callback in progress, and the
\* orchestrator is Idle: the state the program rests in until the next
\* accepted press (nothing but a callback calls led.set_state).
AtRest == pc = "poll" /\ ~is_recording /\ ~is_processing

\* C11 as stated, in the form a finite run refutes: every entry into Error
\* is followed, without a further press, by the idle status, so whenever the
\* program is at rest the error status is not the last one signalled.
C11_ErrorReturnsToIdle == AtRest => signal # STATE_ERROR

\* C12 as stated: while the error status is the last one signalled, no step
\* moves the orchestrator into Recording or Processing.
C12_NoEntryDuringError ==
  [][ signal = STATE_ERROR =>
        /\ is_recording' => is_recording
        /\ is_processing' => is_processing ]_vars

\* ---------------------------------------------------------------------
\* The button monitor on its own: the ButtonHandler after the
\* orchestrator's initialize, with a callback that takes some time and
\* returns, and a client that may call set_callback.  The monitor
\* histories follow the presses.
\* ---------------------------------------------------------------------

Min(a, b) == IF a < b THEN a ELSE b

\* Variant: a set_callback that starts polling on an uninitialized handler.
CanStartPollingUninitialized(initialized, active) == ~active

\* The test of set_callback: "if self.is_initialized and not self.polling_active".
CanStartPolling(initialized, active) == initialized /\ ~active

\* ButtonHandler.set_callback, with the callback the handler already has.
set_callback ==
  /\ sys = "running"
  /\ callback_updated' = TRUE
  /\ IF CanStartPolling(btn_initialized, polling_active)
       THEN start_polling
       ELSE UNCHANGED <<polling_active, polling_thread>>
  /\ UNCHANGED <<sys, pc, line, last_state, elapsed, btn_initialized, orch,
                 recorder, history, aux, since_callback, suppressed, owed, presses,
                 errors>>

\* A physical activation: the line falls.  It is due an event when the
\* monitor runs and the last event is at least a window old.
MonitorPress ==
  /\ sys = "running"
  /\ line = HIGH
  /\ presses < MaxPresses
  /\ line' = LOW
  /\ owed' = (polling_active /\ btn_initialized
              /\ since_callback >= DebounceTicks)
  /\ UNCHANGED <<sys, pc, last_state, elapsed, polling_active, btn_initialized,
                 polling_thread, orch, recorder, history, aux, since_callback,
                 suppressed, presses, callback_updated, errors>>

\* The activation ends: the line rises.
MonitorRelease ==
  /\ sys = "running"
  /\ line = LOW
  /\ line' = HIGH
  /\ owed' = FALSE
  /\ UNCHANGED <<sys, pc, last_state, elapsed, polling_active, btn_initialized,
                 polling_thread, orch, recorder, history, aux, since_callback,
                 suppressed, presses, callback_updated, errors>>

\* Time passes, for the loop's clock and for the history's.
MonitorTick ==
  /\ sys = "running"
  /\ elapsed < DebounceTicks \/ since_callback < DebounceTicks
  /\ elapsed' = Min(elapsed + 1, DebounceTicks)
  /\ since_callback' = Min(since_callback + 1, DebounceTicks)
  /\ UNCHANGED <<sys, pc, line, last_state, polling_active, btn_initialized,
                 polling_thread, orch, recorder, history, aux, suppressed, owed,
                 presses, callback_updated, errors>>

\* One iteration of the polling loop, and what it means for the histories:
\* an accepted press invokes the callback, a falling edge that fails the
\* debounce test is suppressed.
MonitorPoll ==
  /\ sys = "running"
  /\ polling_loop
  /\ since_callback' = IF Accepted THEN 0 ELSE since_callback
  /\ presses' = IF Accepted THEN presses + 1 ELSE presses
  /\ owed' = IF Accepted THEN FALSE ELSE owed
  /\ suppressed' = IF FallingEdge(last_state, line) /\ ~Accepted
                     THEN Min(suppressed + 1, MaxSuppressed)
                     ELSE suppressed
  /\ UNCHANGED <<sys, line, polling_active, btn_initialized, polling_thread,
                 orch, recorder, history, aux, callback_updated, errors>>

\* Variant: an exception of GPIO.input ends the loop.
AfterReadErrorExit == "exited"

\* Where the polling thread is after GPIO.input raised: the except clause
\* of the loop body logs, sleeps 0.1 s and the loop goes on.
AfterReadError == "poll"

\* One iteration of the polling loop in which GPIO.input raises: nothing
\* is sampled and nothing stored.
MonitorReadError ==
  /\ sys = "running"
  /\ pc = "poll"
  /\ polling_active /\ btn_initialized
  /\ errors' = errors \cup {"read"}
  /\ pc' = AfterReadError
  /\ UNCHANGED <<sys, line, last_state, elapsed, polling_active,
                 btn_initialized, polling_thread, orch, recorder, history, aux,
                 since_callback, suppressed, owed, presses, callback_updated>>

\* self.callback() returns (or raises, which the loop logs): the loop
\* stores the sample it took before the call and goes on polling.
MonitorCallback ==
  /\ sys = "running"
  /\ pc = "callback"
  /\ \E raised \in BOOLEAN :
       errors' = IF raised THEN errors \cup {"callback"} ELSE errors
  /\ last_state' = StateAfterCallback
  /\ pc' = "poll"
  /\ suppressed' = 0
  /\ UNCHANGED <<sys, line, elapsed, polling_active, btn_initialized,
                 polling_thread, orch, recorder, history, aux, since_callback, owed,
                 presses, callback_updated>>

NextButton ==
  \/ initialize
  \/ set_callback
  \/ MonitorPress
  \/ MonitorRelease
  \/ MonitorTick
  \/ MonitorPoll
  \/ MonitorReadError
  \/ MonitorCallback

SpecButton == Init /\ [][NextButton]_vars

\* C13: the callback is never invoked twice within one debounce window:
\* an invocation comes at least the window after the one before it, so the
\* falling edges the loop samples inside the window are suppressed (three
\* edges in one window give one invocation).
C13_OncePerWindow ==
  [][ /\ (pc # "callback" /\ pc' = "callback") =>
            (since_callback >= DebounceTicks /\ presses' = presses + 1)
      /\ presses' # presses => (pc # "callback" /\ pc' = "callback")
      /\ (pc = "poll" /\ since_callback < DebounceTicks) => pc' = "poll" ]_vars

\* Three falling edges were sampled inside one window, the accepted one and
\* two suppressed ones, and the callback was invoked once.
C13_Witness ==
  /\ pc = "poll" /\ presses = 1 /\ suppressed = 2
  /\ since_callback < DebounceTicks /\ line = LOW /\ last_state = LOW

\* C14: the window is anchored to the last accepted press: the loop's
\* clock always reads the time since the last invocation, a suppressed edge
\* leaves it alone, and the loop lets no falling edge go uncalled that it
\* samples a window or more after the last invocation, whatever was
\* suppressed in between.
C14_WindowAnchored ==
  [][ /\ elapsed' = since_callback'
      /\ suppressed' > suppressed => elapsed' = elapsed
      /\ (pc = "poll" /\ last_state = HIGH /\ last_state' = LOW) =>
            since_callback < DebounceTicks ]_vars

\* A press was accepted a window after the one before it, with a
\* suppressed edge in between.
C14_Witness ==
  /\ pc = "callback" /\ presses >= 2 /\ suppressed >= 1 /\ elapsed = 0

\* C15 as stated: every activation spaced at least the window after the
\* last event produces its event, so no activation that is due an event
\* ends (the line rises) without the callback having been invoked for it.
C15_EveryActivationOneEvent ==
  [][ (line = LOW /\ line' = HIGH) => ~owed ]_vars

\* C16: when ButtonHandler.initialize fails (is_initialized stays false)
\* and the recorder is available, the orchestrator's initialize ends with
\* the system running; from then on no polling thread is started, not even
\* by set_callback, the callback is never invoked and the system keeps
\* running.
C16_ButtonUnavailable ==
  [][ /\ (sys = "constructed" /\ audio' /\ ~btn_initialized') =>
            (sys' = "running" /\ polling_thread' = None /\ ~polling_active')
      /\ (sys = "running" /\ ~btn_initialized) =>
            /\ sys' = "running" /\ ~btn_initialized'
            /\ polling_thread' = None /\ ~polling_active'
            /\ pc' = "poll" /\ presses' = 0 ]_vars

\* The button failed to initialize, set_callback was called later and the
\* button is held: nothing polls.
C16_Witness ==
  /\ sys = "running" /\ ~btn_initialized /\ callback_updated
  /\ line = LOW /\ polling_thread = None /\ presses = 0

\* C17 as stated: initialize completes and the process keeps running
\* whichever peripheral is unavailable, so no run of initialize ends in
\* the process exiting.
C17_PeripheralNonFatal ==
  [][ (sys = "constructed" /\ sys' # sys) => sys' = "running" ]_vars

C19_WavIsTheCapture ==
  wav.written =>
     /\ wav.payload = frames
     /\ \A i \in 1..Len(wav.payload) : wav.payload[i] = output_file
     /\ wav.nchannels = channels
     /\ wav.sampwidth = sample_size
     /\ wav.framerate = sample_rate

\* C20 as stated: when a read error has ended the capture loop, so that
\* the recorder's flag is already false when the recording is stopped,
\* stop_recording still writes the frames captured before the error to the
\* file and closes the stream.
C20_FlushAfterReadError ==
  [][ (pc = "stop_recording" /\ ~rec_is_recording /\ pc' # pc) =>
        /\ stream' = None
        /\ frames # <<>> => (wav'.written /\ wav'.payload = frames) ]_vars

\* ---------------------------------------------------------------------
\* Capture failures
\* ---------------------------------------------------------------------

RemoteOps == {"transcribe_audio", "analyze_image", "generate_speech"}

\* The step makes stop_recording or capture_image of this session fail.
CaptureFails(op) ==
  /\ calls' # calls /\ calls' # <<>>
  /\ Last(calls') = [op |-> op, out |-> "fail"]

\* C21: a capture failure aborts the session before anything is sent
\* downstream: after stop_recording returned no audio artifact neither the
\* camera nor a remote operation is called, after capture_image returned
\* no image artifact no remote operation is called, no request has left
\* for the model, and the failing step signals the error state.
C21_CaptureFailureAborts ==
  [][ /\ (CaptureFails("stop_recording") \/ CaptureFails("capture_image")) =>
            /\ signal' = STATE_ERROR /\ Last(trace') = "Error"
            /\ pc' = "finally"
      /\ CaptureFails("stop_recording") =>
            /\ Ops(calls') \cap (RemoteOps \cup {"capture_image"}) = {}
            /\ audio_file' = None
      /\ CaptureFails("capture_image") =>
            /\ Ops(calls') \cap RemoteOps = {}
            /\ image_file' = None
      /\ (calls # <<>> /\ Last(calls).out = "fail"
             /\ Last(calls).op \in {"stop_recording", "capture_image"}) =>
            /\ calls' = calls \/ (calls' = <<>> /\ pc = "callback")
            /\ ~vlm_request'.sent
            /\ played' = <<>> ]_vars

\* The camera failed after a recording was saved, and the session is over.
C21_Witness ==
  /\ pc = "poll" /\ ~is_processing /\ signal = STATE_IDLE
  /\ calls = << [op |-> "stop_recording", out |-> "ok"],
                [op |-> "capture_image", out |-> "fail"] >>
  /\ wav.written /\ ~vlm_request.sent

\* The step is the return of stop_recording after stop_stream or close
\* raised: the stream was not released.
CloseRaised == pc = "join" /\ pc' # "join" /\ stream' # None

\* C24: an error of stop_stream or close inside stop_recording is not
\* escalated: the call returns None instead of raising, the orchestrator
\* takes its failure branch with is_recording and is_processing false, not
\* its except clause, and the finally clause returns it to the polling
\* loop Idle.
C24_CloseErrorNotEscalated ==
  [][ /\ CloseRaised =>
            /\ Last(calls') = [op |-> "stop_recording", out |-> "fail"]
            /\ log_error' = FailureMessage("stop_recording")
            /\ pc' = "finally"
            /\ ~is_recording' /\ ~is_processing'
      /\ (pc = "finally" /\ pc' # pc) =>
            (pc' = "poll" /\ ~is_recording' /\ ~is_processing'
               /\ signal' = STATE_IDLE) ]_vars

\* Closing the stream raised with frames in the buffer, and the
\* orchestrator is back in the polling loop, Idle.
C24_Witness ==
  /\ AtRest /\ signal = STATE_IDLE
  /\ calls = << [op |-> "stop_recording", out |-> "fail"] >>
  /\ stream # None /\ stream \in open /\ frames # <<>> /\ ~wav.written

\* ---------------------------------------------------------------------
\* Artifacts of a session
\* ---------------------------------------------------------------------

\* C26: within a session the audio and image artifacts are immutable once
\* produced: transcribe_audio is given the path stop_recording returned,
\* analyze_image the path capture_image returned, and from the return of
\* stop_recording (of capture_image) to the end of the session no step,
\* that of a capture thread still running included, changes the audio
\* (image) file or the path the session holds for it.
C26_ArtifactsImmutable ==
  [][ /\ given'.transcribe_audio # given.transcribe_audio =>
            (given'.transcribe_audio \in {None, audio_file}
               /\ (given'.transcribe_audio # None =>
                     (wav.written /\ output_file = audio_file)))
      /\ given'.analyze_image # given.analyze_image =>
            (given'.analyze_image \in {None, image_file}
               /\ (given'.analyze_image # None =>
                     (jpg.written /\ jpg.path = image_file)))
      /\ (InRun /\ audio_file # None /\ pc' # "poll") =>
            (wav' = wav /\ audio_file' = audio_file /\ output_file' = output_file)
      /\ (InRun /\ image_file # None /\ pc' # "poll") =>
            (jpg' = jpg /\ image_file' = image_file) ]_vars

\* During the remote calls a capture thread that outlived the join has
\* appended to the buffer after the file was written.
C26_Witness ==
  /\ pc = "analyze_image" /\ given.transcribe_audio = audio_file
  /\ audio_file # None /\ jpg.written
  /\ wav.written /\ Len(frames) > Len(wav.payload)

\* ---------------------------------------------------------------------
\* Indicator and session phase
\* ---------------------------------------------------------------------

\* A recording was started and stopped, and the orchestrator is Idle in
\* the polling loop.
IdleAfterSession == AtRest /\ nrec > 0

\* C27 as stated: the last state given to the indicator is 'recording'
\* while the capture is active (from the start of the recording until
\* stop_recording has returned), 'capturing' during capture_image,
\* 'processing' during the remote calls, 'speaking' during play_audio, and
\* 'idle' whenever the orchestrator is Idle after a session has ended.
C27_IndicatorFollowsPhase ==
  /\ (is_recording \/ pc \in {"stop_recording", "join"}) => signal = STATE_RECORDING
  /\ pc = "capture_image" => signal = STATE_CAPTURING
  /\ pc \in RemoteOps => signal = STATE_PROCESSING
  /\ pc = "play_audio" => signal = STATE_SPEAKING
  /\ IdleAfterSession => signal = STATE_IDLE

\* ---------------------------------------------------------------------
\* Malformed responses
\* ---------------------------------------------------------------------

\* The response carries none of the fields the stage expects.
FieldAbsent(op, resp) ==
  /\ resp.received
  /\ CASE op = "transcribe_audio" -> resp.body.has \cap TranscribeKeys = {}
       [] op = "analyze_image"    ->
            resp.body.has \cap (AnalyzeKeys \cup {"result"}) = {}
       [] op = "generate_speech"  ->
            resp.content_type # "audio/wav" /\ resp.body.has \cap SpeechKeys = {}

\* Every response a stage may receive.
StageResponses(op) ==
  CASE op = "transcribe_audio" ->
         Responses({"application/json"}, JsonObjects(TranscribeKeys, Texts))
    [] op = "analyze_image" ->
         Responses({"application/json"}, JsonObjects(AnalyzeKeys \cup {"result"}, Texts))
    [] op = "generate_speech" ->
         Responses({"audio/wav", "application/json"}, JsonObjects(SpeechKeys, AudioRefs))

\* What the client method of the stage returns for a response.
StageResult(op, resp) ==
  CASE op = "transcribe_audio" -> TranscribeResult(resp)
    [] op = "analyze_image"    -> AnalyzeResult(resp)
    [] op = "generate_speech"  -> SpeechResult(resp, TRUE)

\* C25: a response without the expected field is treated like a failure
\* of its stage: the client method returns None for it, and the stage of
\* the session that received it ends as a failed call with nothing kept,
\* the error state signalled and the failure message of the stage logged,
\* and no call follows it in the session.
C25_AbsentFieldIsFailure ==
  [][ /\ \A op \in RemoteOps : \A resp \in StageResponses(op) :
           FieldAbsent(op, resp) => StageResult(op, resp) = ClientNone
      /\ \A op \in RemoteOps :
           (calls' # calls /\ calls' # <<>> /\ Last(calls').op = op
              /\ FieldAbsent(op, response')) =>
                /\ Last(calls').out = "fail"
                /\ op = "transcribe_audio" => user_question' = NoText
                /\ op = "analyze_image" => final_answer' = NoText
                /\ op = "generate_speech" => response_audio' = None
                /\ signal' = STATE_ERROR
                /\ log_error' = FailureMessage(op)
                /\ ~is_processing'
                /\ pc' = "finally"
      /\ (calls # <<>> /\ Last(calls).op \in RemoteOps
             /\ FieldAbsent(Last(calls).op, response)) =>
           (calls' = calls /\ played' = <<>>) ]_vars

\* The transcribe response was a JSON object with neither text nor
\* transcription, and the session is at its finally clause in error.
C25_Witness ==
  /\ pc = "finally" /\ response.received /\ response.body.has = {}
  /\ Last(calls) = [op |-> "transcribe_audio", out |-> "fail"]
  /\ signal = STATE_ERROR /\ user_question = NoText

\* ---------------------------------------------------------------------
\* LLMClient on its own: one method called on one response
\* ---------------------------------------------------------------------

\* Both objects in one: the keys of either, b's value where both have one.
Merge(a, b) ==
  [has |-> a.has \cup b.has,
   val |-> [k \in Keys |-> IF k \in b.has THEN b.val[k] ELSE a.val[k]]]

\* The responses the service may give to a request: any Content-Type,
\* any subset of the keys, each with an empty or a non-empty value.
ClientResponses ==
  Responses({"audio/wav", "application/json"},
            { Merge(a, b) :
                a \in JsonObjects(TranscribeKeys \cup AnalyzeKeys \cup {"result"}, Texts),
                b \in JsonObjects(SpeechKeys, AudioRefs) })

InitClientCall ==
  /\ InitSystem /\ InitHandler /\ InitLed /\ InitPlayer
  /\ response \in ClientResponses
  /\ last_call = NoCall
  /\ query = NoQuery

\* LLMClient.transcribe_audio on a file that exists.
client_transcribe_audio ==
  /\ last_call = NoCall
  /\ last_call' = [op |-> "transcribe_audio", returned |-> TranscribeResult(response)]
  /\ UNCHANGED <<sys, pc, button, orch, recorder, history, monitor, handler,
                 led, player, query>>

\* LLMClient.analyze_image on a file that exists.
client_analyze_image ==
  /\ last_call = NoCall
  /\ last_call' = [op |-> "analyze_image", returned |-> AnalyzeResult(response)]
  /\ UNCHANGED <<sys, pc, button, orch, recorder, history, monitor, handler,
                 led, player, query>>

\* LLMClient.generate_speech on a text that is not empty.
client_generate_speech ==
  /\ last_call = NoCall
  /\ \E fetched \in BOOLEAN :
       last_call' = [op |-> "generate_speech",
                     returned |-> SpeechResult(response, fetched)]
  /\ UNCHANGED <<sys, pc, button, orch, recorder, history, monitor, handler,
                 led, player, query>>

NextClient ==
  \/ client_transcribe_audio
  \/ client_analyze_image
  \/ client_generate_speech

SpecClient == InitClientCall /\ [][NextClient]_vars

\* The non-empty values the body carries under the keys ks.
Carried(body, ks) == {body.val[k] : k \in body.has \cap ks} \ {NoText}

\* C28 as stated: analyze_image returns the answer whenever the body
\* carries a non-empty value under description, analysis or result, and
\* transcribe_audio the transcript whenever it carries one under text or
\* transcription, whatever the other keys hold.
C28_AnyKeyAnswers ==
  /\ (last_call.op = "analyze_image"
        /\ Carried(response.body, AnalyzeKeys \cup {"result"}) # {}) =>
       /\ last_call.returned.ok
       /\ last_call.returned.value \in Carried(response.body, AnalyzeKeys \cup {"result"})
  /\ (last_call.op = "transcribe_audio"
        /\ Carried(response.body, TranscribeKeys) # {}) =>
       /\ last_call.returned.ok
       /\ last_call.returned.value \in Carried(response.body, TranscribeKeys)

\* ---------------------------------------------------------------------
\* Exceptions in the polling loop
\* ---------------------------------------------------------------------

\* C30: an exception of the callback or of GPIO.input does not end the
\* polling loop: the step that catches it leaves the thread in the loop
\* with the handler's flags as they were, and afterwards, as before, a
\* falling edge the loop samples outside the debounce window invokes the
\* callback: one is stored without a callback only inside the window.
C30_LoopSurvivesExceptions ==
  [][ /\ errors' # errors =>
            /\ pc' = "poll"
            /\ polling_active' = polling_active /\ polling_active
            /\ btn_initialized' = btn_initialized /\ btn_initialized
            /\ polling_thread' = polling_thread
            /\ elapsed' = elapsed /\ since_callback' = since_callback
      /\ (errors # {} /\ pc = "poll" /\ last_state = HIGH /\ last_state' = LOW) =>
            since_callback < DebounceTicks
      /\ (errors # {} /\ pc = "poll" /\ pc' = "callback") =>
            (presses' = presses + 1 /\ since_callback' = 0) ]_vars

\* Both kinds of exception have been caught, and a later press is in its
\* callback.
C30_Witness ==
  /\ errors = {"read", "callback"} /\ pc = "callback" /\ presses >= 2
  /\ since_callback = 0 /\ polling_active /\ btn_initialized

\* ---------------------------------------------------------------------
\* ButtonHandler on its own: any sequence of initialize, set_callback and
\* cleanup, with the polling threads they start
\* ---------------------------------------------------------------------

\* The constructor is called with a callback (test_hardware.py 149,
\* main.py) or without one (test_hardware.py 193).
InitHandlerCall ==
  /\ InitSystem /\ InitClient /\ InitLed /\ InitPlayer
  /\ callback_set \in BOOLEAN
  /\ bthr = [t \in PollThreads |-> "unborn"]
  /\ api = "idle"
  /\ press_calls = 0

Unborn == {t \in PollThreads : bthr[t] = "unborn"}

\* Threads that have been started and have not left _polling_loop.
AlivePolling == {t \in PollThreads : bthr[t] \in {"poll", "callback"}}

\* The thread _start_polling creates.
NewPollingThread == CHOOSE t \in Unborn : \A u \in Unborn : t <= u

\* ButtonHandler._start_polling.
handler_start_polling ==
  IF polling_active
    THEN UNCHANGED <<polling_active, polling_thread, bthr>>
    ELSE /\ polling_active' = TRUE
         /\ polling_thread' = NewPollingThread
         /\ bthr' = [bthr EXCEPT ![NewPollingThread] = "poll"]

\* ButtonHandler.initialize, called at any time: on success the line is
\* read, is_initialized set and, if a callback is set, polling started.
handler_initialize ==
  /\ api = "idle"
  /\ Unborn # {}
  /\ \E ok \in BOOLEAN :
       IF ok
         THEN /\ last_state' = line
              /\ btn_initialized' = TRUE
              /\ IF callback_set
                   THEN handler_start_polling
                   ELSE UNCHANGED <<polling_active, polling_thread, bthr>>
         ELSE UNCHANGED <<last_state, btn_initialized, polling_active,
                          polling_thread, bthr>>
  /\ UNCHANGED <<sys, pc, line, elapsed, orch, recorder, history, monitor,
                 client, led, player, callback_set, api, press_calls>>

\* ButtonHandler.set_callback.
handler_set_callback ==
  /\ api = "idle"
  /\ Unborn # {}
  /\ callback_set' = TRUE
  /\ IF CanStartPolling(btn_initialized, polling_active)
       THEN handler_start_polling
       ELSE UNCHANGED <<polling_active, polling_thread, bthr>>
  /\ UNCHANGED <<sys, pc, line, last_state, elapsed, btn_initialized, orch,
                 recorder, history, monitor, client, led, player, api, press_calls>>

\* ButtonHandler.cleanup up to the join of _stop_polling; with no polling
\* to stop it is over at once.
handler_cleanup ==
  /\ api = "idle"
  /\ IF polling_active
       THEN /\ polling_active' = FALSE
            /\ api' = "joining"
            /\ UNCHANGED btn_initialized
       ELSE /\ btn_initialized' = FALSE
            /\ UNCHANGED <<polling_active, api>>
  /\ UNCHANGED <<sys, pc, line, last_state, elapsed, polling_thread, orch,
                 recorder, history, monitor, client, led, player, callback_set, bthr,
                 press_calls>>

\* polling_thread.join(timeout=1.0) returns, the thread having left its
\* loop or being still inside a callback that outlasts the timeout; the
\* rest of cleanup clears is_initialized.
handler_join ==
  /\ api = "joining"
  /\ bthr[polling_thread] \in {"exited", "callback"}
  /\ btn_initialized' = FALSE
  /\ api' = "idle"
  /\ UNCHANGED <<sys, pc, line, last_state, elapsed, polling_active,
                 polling_thread, orch, recorder, history, monitor, client, led, player,
                 callback_set, bthr, press_calls>>

\* One iteration of _polling_loop by thread t: the while test, then the
\* sample, the edge and debounce tests and the store of last_state.
handler_poll(t) ==
  /\ bthr[t] = "poll"
  /\ IF ~(polling_active /\ btn_initialized)
       THEN /\ bthr' = [bthr EXCEPT ![t] = "exited"]
            /\ UNCHANGED <<last_state, elapsed, press_calls>>
       ELSE /\ elapsed' = ElapsedAfterSample(FallingEdge(last_state, line),
                                             Accepted, elapsed)
            /\ IF Accepted /\ callback_set
                 THEN /\ bthr' = [bthr EXCEPT ![t] = "callback"]
                      /\ press_calls' = Min(press_calls + 1, MaxPressCalls)
                      /\ UNCHANGED last_state
                 ELSE /\ last_state' = line
                      /\ UNCHANGED <<bthr, press_calls>>
  /\ UNCHANGED <<sys, pc, line, polling_active, btn_initialized,
                 polling_thread, orch, recorder, history, monitor, client, led, player,
                 callback_set, api>>

\* The callback of thread t returns or raises: the sample taken before the
\* call is stored and the loop goes on.
handler_callback(t) ==
  /\ bthr[t] = "callback"
  /\ last_state' = StateAfterCallback
  /\ bthr' = [bthr EXCEPT ![t] = "poll"]
  /\ UNCHANGED <<sys, pc, line, elapsed, polling_active, btn_initialized,
                 polling_thread, orch, recorder, history, monitor, client, led, player,
                 callback_set, api, press_calls>>

\* A physical activation begins.
HandlerPress ==
  /\ line = HIGH
  /\ line' = LOW
  /\ press_calls' = 0
  /\ UNCHANGED <<sys, pc, last_state, elapsed, polling_active, btn_initialized,
                 polling_thread, orch, recorder, history, monitor, client, led, player,
                 callback_set, bthr, api>>

HandlerRelease ==
  /\ line = LOW
  /\ line' = HIGH
  /\ UNCHANGED <<sys, pc, last_state, elapsed, polling_active, btn_initialized,
                 polling_thread, orch, recorder, history, monitor, aux>>

HandlerTick ==
  /\ elapsed < DebounceTicks
  /\ elapsed' = elapsed + 1
  /\ UNCHANGED <<sys, pc, line, last_state, polling_active, btn_initialized,
                 polling_thread, orch, recorder, history, monitor, aux>>

NextHandler ==
  \/ handler_initialize
  \/ handler_set_callback
  \/ handler_cleanup
  \/ handler_join
  \/ \E t \in PollThreads : handler_poll(t)
  \/ \E t \in PollThreads : handler_callback(t)
  \/ HandlerPress
  \/ HandlerRelease
  \/ HandlerTick

SpecHandler == InitHandlerCall /\ [][NextHandler]_vars

\* C29 as stated: a handler without a callback has started no polling
\* thread; a thread is only started by a call that finds the handler
\* initialized and not polling; at most one polling thread is alive at a
\* time; and the callback is invoked at most once for one activation.
C29_OnePollingThread ==
  /\ ~callback_set => AlivePolling = {}
  /\ polling_active => btn_initialized
  /\ Cardinality(AlivePolling) <= 1
  /\ press_calls <= 1

\* ---------------------------------------------------------------------------
\* The LED controller on its own (led_controller.py): a caller that makes
\* set_state calls with any state value, the animation threads those calls
\* start, and cleanup.  The strip may raise on any write and an animation
\* thread may outlive the one-second join.

\* State values a caller may pass: the six constants and one unknown value.
LedStates == {STATE_IDLE, STATE_RECORDING, STATE_CAPTURING, STATE_PROCESSING,
              STATE_SPEAKING, STATE_ERROR, "unknown"}

\* States shown by one write of a solid colour.
SolidStates == {STATE_IDLE, STATE_RECORDING, STATE_CAPTURING}

\* States shown by an animation thread.
AnimatedStates == {STATE_PROCESSING, STATE_SPEAKING, STATE_ERROR}

\* Animation threads that have been started and have not returned.
AliveAnimations == {t \in AnimThreads : athr[t] \in AnimatedStates}

\* Threads after stop_animation: with the flag set and a thread stored, the
\* thread is joined for one second; it has returned by then or it has not.
ThreadsAfterStop(joined) ==
  IF animation_running /\ animation_thread # None /\ joined
  THEN [athr EXCEPT ![animation_thread] = "done"]
  ELSE athr

\* The stored thread after stop_animation.
ThreadAfterStop == IF animation_running THEN None ELSE animation_thread

\* How set_state would end were the strip written outside any try block.
SetStateOutcomeUnguarded(initialized, writeOk) ==
  IF initialized /\ ~writeOk THEN "raised" ELSE "returned"

\* How set_state ends: it returns at once when uninitialized; the join in
\* stop_animation carries a timeout; the show_* calls sit in a try block whose
\* except clause logs, and set_all_leds catches the strip's exceptions itself.
SetStateOutcome(initialized, writeOk) == "returned"

\* What went wrong during one set_state call.
LedFailures(joined, writeOk, state) ==
  (IF ~led_initialized THEN {"uninitialized"} ELSE {})
    \cup (IF led_initialized /\ state \in SolidStates /\ ~writeOk
          THEN {"write"} ELSE {})
    \cup (IF led_initialized /\ animation_running /\ animation_thread # None
             /\ ~joined
          THEN {"join"} ELSE {})

led_initialize ==
  /\ ~led_initialized
  /\ led_calls = 0
  /\ current_state = "none"
  /\ \E ok \in BOOLEAN : led_initialized' = ok
  /\ UNCHANGED <<sys, pc, button, orch, recorder, history, monitor, client,
                 handler, player, current_state, animation_running, animation_thread,
                 athr, display, led_call, led_calls>>

set_state ==
  /\ led_calls < MaxLedCalls
  /\ \E state \in LedStates, joined \in BOOLEAN, writeOk \in BOOLEAN :
       /\ led_calls' = led_calls + 1
       /\ led_call' = [state |-> state,
                       outcome |-> SetStateOutcome(led_initialized, writeOk),
                       failed |-> LedFailures(joined, writeOk, state)]
       /\ IF ~led_initialized
          THEN UNCHANGED <<current_state, animation_running, animation_thread,
                           athr, display>>
          ELSE /\ current_state' = state
               /\ IF state \in AnimatedStates
                  THEN \E t \in AnimThreads :
                         /\ athr[t] = "unborn"
                         /\ animation_running' = TRUE
                         /\ animation_thread' = t
                         /\ athr' = [ThreadsAfterStop(joined) EXCEPT ![t] = state]
                         /\ display' = display
                  ELSE /\ animation_running' = FALSE
                       /\ animation_thread' = ThreadAfterStop
                       /\ athr' = ThreadsAfterStop(joined)
                       /\ display' = IF state \in SolidStates /\ writeOk
                                     THEN state ELSE display
  /\ UNCHANGED <<sys, pc, button, orch, recorder, history, monitor, client,
                 handler, player, led_initialized>>

\* The strip after a write of animation thread t: the processing and speaking
\* animations write to the strip themselves, the error animation writes
\* through set_all_leds, which does nothing once is_initialized is false.
FrameWritten(t, writeOk) ==
  IF writeOk /\ (athr[t] # STATE_ERROR \/ led_initialized) THEN athr[t]
  ELSE display

\* One pass of an animation thread.  With the flag up it writes a frame; a
\* write that raises ends the processing and speaking animations, while
\* set_all_leds logs the exception and the error animation goes on.  With
\* the flag down it returns, at once when it is at a test of the flag, after
\* the write it is in the middle of when it outlived the join.
animate(t) ==
  /\ athr[t] \in AnimatedStates
  /\ \E writeOk \in BOOLEAN, midPass \in BOOLEAN :
       IF ~animation_running
       THEN /\ athr' = [athr EXCEPT ![t] = "done"]
            /\ display' = IF midPass THEN FrameWritten(t, writeOk) ELSE display
       ELSE IF writeOk
       THEN athr' = athr /\ display' = FrameWritten(t, writeOk)
       ELSE /\ athr' = IF athr[t] = STATE_ERROR THEN athr
                       ELSE [athr EXCEPT ![t] = "done"]
            /\ display' = display
  /\ UNCHANGED <<sys, pc, button, orch, recorder, history, monitor, client,
                 handler, player, led_initialized, current_state, animation_running,
                 animation_thread, led_call, led_calls>>

led_cleanup ==
  /\ led_calls > 0
  /\ led_initialized
  /\ \E joined \in BOOLEAN, writeOk \in BOOLEAN :
       /\ animation_running' = FALSE
       /\ animation_thread' = ThreadAfterStop
       /\ athr' = ThreadsAfterStop(joined)
       /\ display' = IF writeOk THEN "off" ELSE display
  /\ led_initialized' = FALSE
  /\ UNCHANGED <<sys, pc, button, orch, recorder, history, monitor, client,
                 handler, player, current_state, led_call, led_calls>>

NextLed ==
  \/ led_initialize
  \/ set_state
  \/ \E t \in AnimThreads : animate(t)
  \/ led_cleanup

SpecLed == Init /\ [][NextLed]_vars

shutdown ==
  /\ sys = "running"
  /\ IF is_recording /\ rec_is_recording
       THEN /\ rec_is_recording' = FALSE
            /\ sys' = "shutdown_join"
       ELSE /\ UNCHANGED rec_is_recording
            /\ sys' = "recorder_cleanup"
  /\ UNCHANGED <<pc, button, orch, audio, stream, open, frames, output_file,
                 wav, recording_thread, thr, rd, nrec, history, monitor, aux>>

\* AudioRecorder.cleanup when a recording is in progress: stop_recording.
recorder_cleanup ==
  /\ sys = "recorder_cleanup"
  /\ rec_is_recording
  /\ rec_is_recording' = FALSE
  /\ sys' = "cleanup_join"
  /\ UNCHANGED <<pc, button, orch, audio, stream, open, frames, output_file,
                 wav, recording_thread, thr, rd, nrec, history, monitor, aux>>

\* The rest of recorder.stop_recording in the main thread: the bounded join,
\* the stream closed, the frames saved; its result is not looked at.
recorder_stop ==
  /\ sys \in {"shutdown_join", "cleanup_join"}
  /\ \E timedOut \in BOOLEAN, closeOk \in BOOLEAN :
       /\ JoinReturns(timedOut)
       /\ IF stream # None /\ closeOk
            THEN /\ open' = open \ {stream}
                 /\ stream' = None
            ELSE UNCHANGED <<open, stream>>
       /\ wav' = IF StopResult(closeOk) # None THEN WavFile(frames) ELSE wav
  /\ sys' = IF sys = "shutdown_join" THEN "recorder_cleanup" ELSE "terminate"
  /\ UNCHANGED <<pc, button, orch, audio, rec_is_recording, frames,
                 output_file, recording_thread, thr, rd, nrec, history,
                 monitor, aux>>

\* The animation threads after led.cleanup.  The controller's state follows
\* the last set_state call (signal): with the controller initialized and an
\* animated state shown, one animation thread is alive and cleanup joins it
\* for a second.
AnimationsAfterCleanup(ledOk, joined) ==
  IF ledOk /\ signal \in AnimatedStates /\ ~joined
  THEN [athr EXCEPT ![1] = signal]
  ELSE athr

\* The rest of shutdown: PyAudio terminated (which closes the streams it
\* opened), camera and player cleanup (no state), button.cleanup (flag
\* lowered, bounded join, pin released), led.cleanup (animation stopped, strip
\* cleared).  The strip is taken to work.
devices_cleanup ==
  /\ \/ sys = "terminate"
     \/ sys = "recorder_cleanup" /\ ~rec_is_recording
  /\ audio' = FALSE
  /\ open' = {}
  /\ polling_active' = FALSE
  /\ btn_initialized' = FALSE
  /\ \E ledOk \in BOOLEAN, joined \in BOOLEAN :
       athr' = AnimationsAfterCleanup(ledOk, joined)
  /\ animation_running' = FALSE
  /\ animation_thread' = None
  /\ led_initialized' = FALSE
  /\ display' = "off"
  /\ sys' = "stopped"
  /\ UNCHANGED <<pc, line, last_state, elapsed, polling_thread, orch,
                 rec_is_recording, stream, frames, output_file, wav,
                 recording_thread, thr, rd, nrec, history, monitor, client,
                 handler, player, current_state, led_call, led_calls>>

NextShutdown ==
  \/ Next
  \/ shutdown
  \/ recorder_cleanup
  \/ recorder_stop
  \/ devices_cleanup
  \/ \E t \in AnimThreads : animate(t)

SpecShutdown == Init /\ [][NextShutdown]_vars

\* C22: when shutdown completes, from any orchestrator state, no capture is
\* in progress, no microphone stream is open, no capture thread is running,
\* the button polling is stopped and its pin released, and the indicator is
\* off (or idle) with no animation running.
C22_ShutdownReleasesEverything ==
  [][ (sys # "stopped" /\ sys' = "stopped") =>
        /\ ~rec_is_recording'
        /\ open' = {}
        /\ \A t \in Recordings : thr'[t] \in {"unborn", "done"}
        /\ ~polling_active' /\ ~btn_initialized'
        /\ display' \in {"off", STATE_IDLE}
        /\ ~animation_running'
        /\ \A t \in AnimThreads : athr'[t] \notin AnimatedStates ]_vars

\* ---------------------------------------------------------------------
\* Capture threads and the frame buffer
\* ---------------------------------------------------------------------

\* Capture threads that have been started and have not returned.
AliveCaptures == {t \in Recordings : Alive(t)}

\* C31 as stated: at most one capture thread is alive at any time, and every
\* frame in the buffer, and in the artifact written from it, was read from
\* the stream of the recording the buffer belongs to, also after a join
\* that timed out.
C31_OneCaptureOwnsBuffer ==
  /\ Cardinality(AliveCaptures) <= 1
  /\ \A i \in 1..Len(frames) : frames[i] = recording_thread
  /\ wav.written => \A i \in 1..Len(wav.payload) : wav.payload[i] = output_file

\* The step is a capture thread leaving its loop through the except clause.
CaptureError(t) == Alive(t) /\ thr'[t] = "done" /\ rec_is_recording

\* C32 as stated: a recording in progress is ended only by stop_recording or
\* by a read error of its own thread on its own stream; a capture thread
\* left over from an earlier recording never clears is_recording of a later
\* one.
C32_OnlyOwnThreadEnds ==
  [][ (rec_is_recording /\ ~rec_is_recording') =>
        \/ pc = "stop_recording" /\ pc' = "join"
        \/ /\ CaptureError(recording_thread)
           /\ rd[recording_thread] \in {None, stream} ]_vars

\* C33 as stated: whenever the orchestrator is Idle with no callback
\* executing the recorder holds no open microphone stream, and no stream is
\* open that the recorder no longer refers to (none was overwritten while
\* open).
C33_IdleHoldsNoStream ==
  /\ AtRest => open = {}
  /\ open \subseteq {stream}

\* C34: whenever no button callback is executing, the recorder's
\* is_recording flag implies the orchestrator's: the recorder is never
\* capturing while the orchestrator believes it is Idle.
C34_RecorderFlagImpliesOrchestrator ==
  pc = "poll" => (rec_is_recording => is_recording)

\* A recording is in progress between two callbacks.
C34_Witness == pc = "poll" /\ rec_is_recording /\ is_recording /\ nrec = 2

\* The last set_state call showed a solid state and its write went through.
SolidShown ==
  /\ led_initialized
  /\ led_call.state \in SolidStates
  /\ led_call.failed \cap {"uninitialized", "write"} = {}

\* C35 as stated: at most one animation thread is alive at any time, and
\* once set_state has returned for a solid state the strip shows that state
\* (no animation thread of an earlier state writes to it), also after a
\* join in stop_animation that timed out.
C35_OneAnimationOwnsStrip ==
  /\ Cardinality(AliveAnimations) <= 1
  /\ SolidShown => display = led_call.state

\* The step begins a call of op in the pipeline.
Invokes(op) == Len(calls') > Len(calls) /\ Last(calls').op = op

StepsLeft(p) ==
  CASE p = "poll"             -> 0
    [] p = "finally"          -> 1
    [] p = "sleep"            -> 2
    [] p = "play_audio"       -> 3
    [] p = "generate_speech"  -> 4
    [] p = "analyze_image"    -> 5
    [] p = "transcribe_audio" -> 6
    [] p = "capture_image"    -> 7
    [] p = "join"             -> 8
    [] p = "stop_recording"   -> 9
    [] p = "callback"         -> 10

\* A step of the polling thread inside the callback.
CallbackStep ==
  on_button_press \/ stop_recording \/ join \/ pipeline_stage \/ sleep \/ finally

\* C37: no session outcome disables the device.  Inside a callback a step
\* is always possible and every one brings the return closer, so a callback
\* whose collaborator calls return does return; a session ends Idle; no
\* step but initialize touches the polling loop's flags; and a press
\* accepted while Idle finds the recorder free, so that with a microphone
\* that works a new recording starts.
C37_NeverDisabled ==
  [][ /\ pc # "poll" => ENABLED CallbackStep
      /\ (pc # "poll" /\ pc' # pc) => StepsLeft(pc') < StepsLeft(pc)
      /\ (pc = "finally" /\ pc' = "poll") => (~is_recording' /\ ~is_processing')
      /\ sys = "running" =>
           (polling_active' = polling_active /\ btn_initialized' = btn_initialized)
      /\ (pc = "callback" /\ Dispatch(is_processing, is_recording) = "start") =>
           /\ StartResult(TRUE) # None
           /\ nrec' = nrec + 1 =>
                (is_recording' /\ rec_is_recording' /\ thr'[nrec'] = "test"
                  /\ stream' = nrec' /\ pc' = "poll") ]_vars

\* A new recording is in progress after a session that lost its capture to
\* a read error, whose stream is still open.
C37_Witness ==
  /\ is_recording /\ rec_is_recording /\ pc = "poll"
  /\ nrec = 2 /\ stream = 2 /\ 1 \in open
  /\ thr[1] = "done" /\ Alive(2)

\* ---------------------------------------------------------------------------
\* The audio player on its own (audio_playback.py): play_audio calls with
\* any artifact, present or missing, and any outcome of the two playback
\* methods, and test_playback.

\* One attempt of a playback method.
Attempt(method, ok) == [method |-> method, ok |-> ok]

\* Variant: the failure of aplay is not remembered.
FallbackAfterFailureForgotten == FALSE

\* use_fallback after aplay failed in play_audio.
FallbackAfterFailure == TRUE

\* The methods play_audio tries, in order, with their outcomes: none when
\* the file does not exist, aplay unless use_fallback is set, PyAudio when
\* aplay was skipped or failed.
Tried(exists, aplayOk, pyOk) ==
  IF ~exists THEN <<>>
  ELSE IF use_fallback THEN <<Attempt("pyaudio", pyOk)>>
  ELSE IF aplayOk THEN <<Attempt("aplay", TRUE)>>
  ELSE <<Attempt("aplay", FALSE), Attempt("pyaudio", pyOk)>>

\* What play_audio returns.
PlayResult(tried) == IF tried = <<>> THEN FALSE ELSE Last(tried).ok

player_play_audio ==
  /\ Len(plays) < MaxPlayCalls
  /\ \E exists \in BOOLEAN, aplayOk \in BOOLEAN, pyOk \in BOOLEAN :
       /\ plays' = Append(plays,
                     [exists |-> exists,
                      tried |-> Tried(exists, aplayOk, pyOk),
                      result |-> PlayResult(Tried(exists, aplayOk, pyOk))])
       /\ use_fallback' = IF exists /\ ~use_fallback /\ ~aplayOk
                          THEN FallbackAfterFailure ELSE use_fallback
  /\ UNCHANGED <<sys, pc, button, orch, recorder, history, monitor, client,
                 handler, led>>

\* test_playback runs "aplay --version": only a missing aplay sets
\* use_fallback; every outcome but exit code 0 returns False.
player_test_playback ==
  /\ \E outcome \in {"ok", "failed", "not found", "error"} :
       use_fallback' = IF outcome = "not found" THEN TRUE ELSE use_fallback
  /\ UNCHANGED <<sys, pc, button, orch, recorder, history, monitor, client,
                 handler, led, plays>>

NextPlayback ==
  \/ player_play_audio
  \/ player_test_playback

SpecPlayback == Init /\ [][NextPlayback]_vars

\* aplay was tried in the call and failed.
AplayFailed(call) ==
  \E k \in 1..Len(call.tried) : call.tried[k] = Attempt("aplay", FALSE)

\* C38: the playback fallback is sticky.  A call made after a call in which
\* aplay failed tries the fallback only; a call with a missing file tries
\* nothing and fails; every other call returns the outcome of the method it
\* tried last, and goes on to the fallback exactly when aplay failed.
C38_FallbackSticky ==
  \A j \in 1..Len(plays) :
    /\ ~plays[j].exists => (plays[j].tried = <<>> /\ ~plays[j].result)
    /\ plays[j].exists =>
         /\ plays[j].tried # <<>>
         /\ plays[j].result = Last(plays[j].tried).ok
         /\ Len(plays[j].tried) = 2 <=> plays[j].tried[1] = Attempt("aplay", FALSE)
         /\ Last(plays[j].tried).method = "aplay" => plays[j].result
    /\ \A i \in 1..(j - 1) :
         AplayFailed(plays[i]) =>
           \A k \in 1..Len(plays[j].tried) : plays[j].tried[k].method = "pyaudio"

\* aplay failed in the first call, the second found no file, and the third
\* played with the fallback alone.
C38_Witness ==
  /\ Len(plays) = 3
  /\ AplayFailed(plays[1])
  /\ ~plays[2].exists
  /\ plays[3].tried = <<Attempt("pyaudio", TRUE)>> /\ plays[3].result

\* ---------------------------------------------------------------------
\* LLMClient.process_complete_query on its own
\* ---------------------------------------------------------------------

\* The query_text argument: None, the empty string or a text.
QueryTexts == {ClientNone} \cup {ClientValue(t) : t \in Texts \cup {NoText}}

\* Python truth of a value that is None or a string.
Truthy(v) == v.ok /\ v.value # NoText

\* The call up to its first client method: transcribe_audio is next when
\* query_text is None, otherwise query_text is the transcription.
NewQuery(query_text) ==
  [at |-> IF query_text = ClientNone THEN "transcribe_audio" ELSE "analyze_image",
   query_text |-> query_text,
   made |-> <<>>,
   result |-> [EmptyResult EXCEPT !.transcription = query_text]]

InitQuery ==
  /\ InitSystem /\ InitHandler /\ InitLed /\ InitPlayer
  /\ response = NoResponse
  /\ last_call = NoCall
  /\ query \in {NewQuery(qt) : qt \in QueryTexts}

\* Where the call goes after a client method returned value to it.
AfterMethod(value, next) == IF Truthy(value) THEN next ELSE "returned"

\* Step 1: transcribe_audio.
query_transcribe_audio ==
  /\ query.at = "transcribe_audio"
  /\ \E resp \in {NoResponse} \cup StageResponses("transcribe_audio") :
       /\ response' = resp
       /\ query' = [query EXCEPT
            !.made = Append(@, "transcribe_audio"),
            !.result.transcription = TranscribeResult(resp),
            !.at = AfterMethod(TranscribeResult(resp), "analyze_image")]
  /\ UNCHANGED <<sys, pc, button, is_recording, is_processing,
                 current_audio_file, audio_file, image_file, user_question,
                 final_answer, response_audio, signal, log_error, vlm_request,
                 given, jpg, played, synthesized, recorder, history, monitor,
                 last_call, handler, led, player>>

\* Step 2: analyze_image.
query_analyze_image ==
  /\ query.at = "analyze_image"
  /\ \E resp \in {NoResponse} \cup StageResponses("analyze_image") :
       /\ response' = resp
       /\ query' = [query EXCEPT
            !.made = Append(@, "analyze_image"),
            !.result.image_analysis = AnalyzeResult(resp),
            !.at = AfterMethod(AnalyzeResult(resp), "generate_speech")]
  /\ UNCHANGED <<sys, pc, button, is_recording, is_processing,
                 current_audio_file, audio_file, image_file, user_question,
                 final_answer, response_audio, signal, log_error, vlm_request,
                 given, jpg, played, synthesized, recorder, history, monitor,
                 last_call, handler, led, player>>

\* Steps 3 and 4: the response text is built and generate_speech called.
query_generate_speech ==
  /\ query.at = "generate_speech"
  /\ \E resp \in {NoResponse} \cup StageResponses("generate_speech"),
        fetched \in BOOLEAN :
       /\ response' = resp
       /\ query' = [query EXCEPT
            !.made = Append(@, "generate_speech"),
            !.result.response_audio = SpeechResult(resp, fetched),
            !.result.success = Truthy(SpeechResult(resp, fetched)),
            !.at = "returned"]
  /\ UNCHANGED <<sys, pc, button, is_recording, is_processing,
                 current_audio_file, audio_file, image_file, user_question,
                 final_answer, response_audio, signal, log_error, vlm_request,
                 given, jpg, played, synthesized, recorder, history, monitor,
                 last_call, handler, led, player>>

NextQuery ==
  \/ query_transcribe_audio
  \/ query_analyze_image
  \/ query_generate_speech

SpecQuery == InitQuery /\ [][NextQuery]_vars

\* The client methods the call has made.
Made == {query.made[i] : i \in 1..Len(query.made)}

\* C39 as stated: process_complete_query does not call transcribe_audio when
\* query_text is given, does not call analyze_image when the transcription
\* is empty, does not call generate_speech when the analysis is empty, and
\* returns success true iff transcription, image_analysis and
\* response_audio are all non-empty.
C39_QueryShortCircuits ==
  /\ query.query_text # ClientNone => "transcribe_audio" \notin Made
  /\ ~Truthy(query.result.transcription) => "analyze_image" \notin Made
  /\ ~Truthy(query.result.image_analysis) => "generate_speech" \notin Made
  /\ query.at = "returned" =>
       (query.result.success <=>
          /\ Truthy(query.result.transcription)
          /\ Truthy(query.result.image_analysis)
          /\ Truthy(query.result.response_audio))

====
